---- MODULE Spec2Model ----
(***************************************************************************)
(* Model of enrich_books.py: extract_locations_from_text and its callers.  *)
(* A text is a sequence of one-character strings; the regular expressions  *)
(* of the source are data (sequences of nodes) interpreted by a            *)
(* backtracking matcher with the priorities of Python's re module.         *)
(***************************************************************************)
EXTENDS Integers, Sequences, FiniteSets, TLC

\* ------------------------------------------------------------------------
\* Characters and the str methods the source uses
\* ------------------------------------------------------------------------
Lowers == <<"a","b","c","d","e","f","g","h","i","j","k","l","m",
            "n","o","p","q","r","s","t","u","v","w","x","y","z">>

Uppers == <<"A","B","C","D","E","F","G","H","I","J","K","L","M",
            "N","O","P","Q","R","S","T","U","V","W","X","Y","Z">>

LowerSet == {Lowers[i] : i \in 1..26}

UpperSet == {Uppers[i] : i \in 1..26}

Digits == {"0","1","2","3","4","5","6","7","8","9"}

\* \s of the re module, restricted to ASCII
Whitespace == {" ", "\t", "\n", "\r", "\f"}

\* \w of the re module, restricted to ASCII
WordChars == LowerSet \cup UpperSet \cup Digits \cup {"_"}

\* [a-zA-Z\s]
LetterOrSpace == LowerSet \cup UpperSet \cup Whitespace

LowerChar(c) ==
  IF c \in UpperSet THEN Lowers[CHOOSE i \in 1..26 : Uppers[i] = c] ELSE c

UpperChar(c) ==
  IF c \in LowerSet THEN Uppers[CHOOSE i \in 1..26 : Lowers[i] = c] ELSE c

\* str.lower()
Lower(s) == [i \in 1..Len(s) |-> LowerChar(s[i])]

RECURSIVE LStrip(_, _)
LStrip(s, cs) ==
  IF Len(s) > 0 /\ s[1] \in cs THEN LStrip(Tail(s), cs) ELSE s

RECURSIVE RStrip(_, _)
RStrip(s, cs) ==
  IF Len(s) > 0 /\ s[Len(s)] \in cs THEN RStrip(SubSeq(s, 1, Len(s) - 1), cs) ELSE s

\* str.strip(chars)
StripChars(s, cs) == RStrip(LStrip(s, cs), cs)

\* str.strip()
Strip(s) == StripChars(s, Whitespace)

\* str.startswith(prefix)
StartsWith(s, p) == Len(s) >= Len(p) /\ SubSeq(s, 1, Len(p)) = p

\* ------------------------------------------------------------------------
\* Regular expressions: nodes and the backtracking matcher
\* ------------------------------------------------------------------------
Inf == 0 - 1

In(S) == [t |-> "set", cs |-> S]

NotIn(S) == [t |-> "nset", cs |-> S]

\* (?: a | b | ...), each alternative a sequence of nodes
Alt(alts) == [t |-> "alt", alts |-> alts]

\* ( ... ), capture group number n
Grp(n, body) == [t |-> "grp", n |-> n, body |-> body]

\* body{min,max}, greedy or lazy; max = Inf for no upper limit
Rep(body, min, max, lazy) ==
  [t |-> "rep", body |-> body, min |-> min, max |-> max, lazy |-> lazy]

Plus(body) == Rep(body, 1, Inf, FALSE)

PlusLazy(body) == Rep(body, 1, Inf, TRUE)

StarLazy(body) == Rep(body, 0, Inf, TRUE)

Opt(body) == Rep(body, 0, 1, FALSE)

Bol == [t |-> "bol"]

Eol == [t |-> "eol"]

WordBoundary == [t |-> "wb"]

\* a literal string
Lit(s) == [i \in 1..Len(s) |-> In({s[i]})]

\* a literal string under re.IGNORECASE
LitI(s) == [i \in 1..Len(s) |-> In({LowerChar(s[i]), UpperChar(s[i])})]

NoMatch == [ok |-> FALSE]

IsWordAt(s, i) == i >= 1 /\ i <= Len(s) /\ s[i] \in WordChars

\* Match the node sequence items against s from position i (1-based, the
\* next character to read); caps[k] is <<start, end>> of group k (end
\* exclusive), <<0, 0>> when the group did not take part.
RECURSIVE Match(_, _, _, _)
Match(s, items, i, caps) ==
  IF Len(items) = 0 THEN [ok |-> TRUE, end |-> i, caps |-> caps]
  ELSE
    LET h == Head(items)
        r == Tail(items)
    IN
    CASE h.t = "set" ->
           IF i <= Len(s) /\ s[i] \in h.cs THEN Match(s, r, i + 1, caps) ELSE NoMatch
      [] h.t = "nset" ->
           IF i <= Len(s) /\ s[i] \notin h.cs THEN Match(s, r, i + 1, caps) ELSE NoMatch
      [] h.t = "bol" ->
           IF i = 1 THEN Match(s, r, i, caps) ELSE NoMatch
      [] h.t = "eol" ->
           IF i = Len(s) + 1 \/ (i = Len(s) /\ s[i] = "\n")
           THEN Match(s, r, i, caps) ELSE NoMatch
      [] h.t = "wb" ->
           IF IsWordAt(s, i - 1) # IsWordAt(s, i) THEN Match(s, r, i, caps) ELSE NoMatch
      [] h.t = "alt" ->
           LET first == Match(s, Head(h.alts) \o r, i, caps)
           IN IF first.ok \/ Len(h.alts) = 1 THEN first
              ELSE Match(s, <<Alt(Tail(h.alts))>> \o r, i, caps)
      [] h.t = "grp" ->
           Match(s, h.body \o <<[t |-> "end", n |-> h.n, from |-> i]>> \o r, i, caps)
      [] h.t = "end" ->
           Match(s, r, i, [caps EXCEPT ![h.n] = <<h.from, i>>])
      [] h.t = "rep" ->
           IF Len(h.body) = 1 /\ h.body[1].t \in {"set", "nset"}
           THEN \* a repeated character class: the shortest (lazy) or longest
                \* (greedy) run after which the rest of the pattern matches
                LET fits(j) == IF h.body[1].t = "set" THEN s[j] \in h.body[1].cs
                               ELSE s[j] \notin h.body[1].cs
                    left == Len(s) - i + 1
                    top  == IF h.max = Inf \/ h.max > left THEN left ELSE h.max
                    good == {k \in h.min..top :
                               /\ \A j \in i..(i + k - 1) : fits(j)
                               /\ Match(s, r, i + k, caps).ok}
                    pick == IF h.lazy THEN CHOOSE k \in good : \A j \in good : k <= j
                            ELSE CHOOSE k \in good : \A j \in good : k >= j
                IN IF good = {} THEN NoMatch ELSE Match(s, r, i + pick, caps)
           ELSE LET more == h.body \o <<Rep(h.body,
                                            IF h.min > 0 THEN h.min - 1 ELSE 0,
                                            IF h.max = Inf THEN Inf ELSE h.max - 1,
                                            h.lazy)>> \o r
                IN IF h.min > 0 THEN Match(s, more, i, caps)
                   ELSE IF h.max = 0 THEN Match(s, r, i, caps)
                   ELSE IF h.lazy
                        THEN LET stop == Match(s, r, i, caps)
                             IN IF stop.ok THEN stop ELSE Match(s, more, i, caps)
                        ELSE LET go == Match(s, more, i, caps)
                             IN IF go.ok THEN go ELSE Match(s, r, i, caps)

NoCaps == <<<<0, 0>>, <<0, 0>>>>

\* the least element of a non-empty set of positions
Least(S) == CHOOSE p \in S : \A q \in S : p <= q

\* a match object: the span of the whole match and of its groups
MatchObject(m, start) == [ok |-> TRUE, start |-> start, end |-> m.end, caps |-> m.caps]

MatchAt(s, re, start) == MatchObject(Match(s, re, start, NoCaps), start)

FirstMatch(s, re, starts) ==
  IF starts = {} THEN NoMatch ELSE MatchAt(s, re, Least(starts))

\* re.search from position from: the leftmost start at which the pattern matches
Search(s, re, from) ==
  FirstMatch(s, re, {p \in from..(Len(s) + 1) :
                       /\ re[1].t = "set" => (p <= Len(s) /\ s[p] \in re[1].cs)
                       /\ Match(s, re, p, NoCaps).ok})

\* where the scan goes on after a match: its end, one further after an empty match
After(m) == IF m.end > m.start THEN m.end ELSE m.end + 1

\* re.finditer: the successive non-overlapping matches, left to right
RECURSIVE FindIterFrom(_, _, _)
FindIterRest(s, re, m) ==
  IF ~m.ok THEN <<>> ELSE <<m>> \o FindIterFrom(s, re, After(m))

FindIterFrom(s, re, from) == FindIterRest(s, re, Search(s, re, from))

FindIter(s, re) == FindIterFrom(s, re, 1)

\* match.group(k)
Group(s, m, k) == SubSeq(s, m.caps[k][1], m.caps[k][2] - 1)

\* re.sub(re, repl, s): every match replaced by the constant string repl
RECURSIVE SubFrom(_, _, _, _)
SubRest(s, re, repl, from, m) ==
  IF ~m.ok THEN SubSeq(s, from, Len(s))
  ELSE SubSeq(s, from, m.start - 1) \o repl \o SubFrom(s, re, repl, After(m))

SubFrom(s, re, repl, from) == SubRest(s, re, repl, from, Search(s, re, from))

Sub(s, re, repl) == SubFrom(s, re, repl, 1)

\* re.split(re, s), for a pattern that matches no empty string
RECURSIVE SplitFrom(_, _, _)
SplitRest(s, re, from, m) ==
  IF ~m.ok THEN <<SubSeq(s, from, Len(s))>>
  ELSE <<SubSeq(s, from, m.start - 1)>> \o SplitFrom(s, re, m.end)

SplitFrom(s, re, from) == SplitRest(s, re, from, Search(s, re, from))

Split(s, re) == SplitFrom(s, re, 1)

\* ------------------------------------------------------------------------
\* extract_locations_from_text: the pattern tables
\* ------------------------------------------------------------------------
\* [^.]
NotDot == NotIn({"."})

\* r'set in ([^.]+?)(?:\.|,| and | in the)'
SetInPattern ==
  LitI(<<"s","e","t"," ","i","n"," ">>)
  \o <<Grp(1, <<PlusLazy(<<NotDot>>)>>),
       Alt(<<Lit(<<".">>), Lit(<<",">>), LitI(<<" ","a","n","d"," ">>), LitI(<<" ","i","n"," ","t","h","e">>)>>)>>

\* r'takes? place in ([^.]+?)(?:\.|,| and | in the)'
TakesPlacePattern ==
  LitI(<<"t","a","k","e">>) \o <<Opt(LitI(<<"s">>))>> \o LitI(<<" ","p","l","a","c","e"," ","i","n"," ">>)
  \o <<Grp(1, <<PlusLazy(<<NotDot>>)>>),
       Alt(<<Lit(<<".">>), Lit(<<",">>), LitI(<<" ","a","n","d"," ">>), LitI(<<" ","i","n"," ","t","h","e">>)>>)>>

\* r'located in ([^.]+?)(?:\.|,| and )'
LocatedInPattern ==
  LitI(<<"l","o","c","a","t","e","d"," ","i","n"," ">>)
  \o <<Grp(1, <<PlusLazy(<<NotDot>>)>>),
       Alt(<<Lit(<<".">>), Lit(<<",">>), LitI(<<" ","a","n","d"," ">>)>>)>>

\* r'story (?:is )?set in ([^.]+?)(?:\.|,| and )'
StorySetInPattern ==
  LitI(<<"s","t","o","r","y"," ">>) \o <<Opt(LitI(<<"i","s"," ">>))>> \o LitI(<<"s","e","t"," ","i","n"," ">>)
  \o <<Grp(1, <<PlusLazy(<<NotDot>>)>>),
       Alt(<<Lit(<<".">>), Lit(<<",">>), LitI(<<" ","a","n","d"," ">>)>>)>>

\* r'(?:novel|book|story) (?:is )?set in ([^.]+?)(?:\.|,| and )'
NovelSetInPattern ==
  <<Alt(<<LitI(<<"n","o","v","e","l">>), LitI(<<"b","o","o","k">>), LitI(<<"s","t","o","r","y">>)>>)>>
  \o LitI(<<" ">>) \o <<Opt(LitI(<<"i","s"," ">>))>> \o LitI(<<"s","e","t"," ","i","n"," ">>)
  \o <<Grp(1, <<PlusLazy(<<NotDot>>)>>),
       Alt(<<Lit(<<".">>), Lit(<<",">>), LitI(<<" ","a","n","d"," ">>)>>)>>

\* r'centers? (?:around|on) [^.]*?(?:in|from) ([^.]+?)(?:\.|,| that | and )'
CentersPattern ==
  LitI(<<"c","e","n","t","e","r">>) \o <<Opt(LitI(<<"s">>))>> \o LitI(<<" ">>)
  \o <<Alt(<<LitI(<<"a","r","o","u","n","d">>), LitI(<<"o","n">>)>>)>> \o LitI(<<" ">>)
  \o <<StarLazy(<<NotDot>>), Alt(<<LitI(<<"i","n">>), LitI(<<"f","r","o","m">>)>>)>> \o LitI(<<" ">>)
  \o <<Grp(1, <<PlusLazy(<<NotDot>>)>>),
       Alt(<<Lit(<<".">>), Lit(<<",">>), LitI(<<" ","t","h","a","t"," ">>), LitI(<<" ","a","n","d"," ">>)>>)>>

\* r'story of [^.]*?(?:in|from) ([^.]+?)(?:\.|,| after | who | before | and )'
StoryOfPattern ==
  LitI(<<"s","t","o","r","y"," ","o","f"," ">>)
  \o <<StarLazy(<<NotDot>>), Alt(<<LitI(<<"i","n">>), LitI(<<"f","r","o","m">>)>>)>> \o LitI(<<" ">>)
  \o <<Grp(1, <<PlusLazy(<<NotDot>>)>>),
       Alt(<<Lit(<<".">>), Lit(<<",">>), LitI(<<" ","a","f","t","e","r"," ">>), LitI(<<" ","w","h","o"," ">>), LitI(<<" ","b","e","f","o","r","e"," ">>), LitI(<<" ","a","n","d"," ">>)>>)>>

\* setting_patterns, in the order of the list
setting_patterns ==
  <<SetInPattern, TakesPlacePattern, LocatedInPattern, StorySetInPattern,
    NovelSetInPattern, CentersPattern, StoryOfPattern>>


\* (fifteenth|sixteenth|...|twenty-second), case-sensitive
CenturyWords ==
  <<<<"f","i","f","t","e","e","n","t","h">>,
    <<"s","i","x","t","e","e","n","t","h">>,
    <<"s","e","v","e","n","t","e","e","n","t","h">>,
    <<"e","i","g","h","t","e","e","n","t","h">>,
    <<"n","i","n","e","t","e","e","n","t","h">>,
    <<"t","w","e","n","t","i","e","t","h">>,
    <<"t","w","e","n","t","y","-","f","i","r","s","t">>,
    <<"t","w","e","n","t","y","-","s","e","c","o","n","d">>>>

\* r'\s+(?:over|in|during|for)\s+\w+\s+(?:days|weeks|months|years)', re.IGNORECASE
TemporalPattern ==
  <<Plus(<<In(Whitespace)>>), Alt(<<LitI(<<"o","v","e","r">>), LitI(<<"i","n">>), LitI(<<"d","u","r","i","n","g">>), LitI(<<"f","o","r">>)>>),
    Plus(<<In(Whitespace)>>), Plus(<<In(WordChars)>>), Plus(<<In(Whitespace)>>),
    Alt(<<LitI(<<"d","a","y","s">>), LitI(<<"w","e","e","k","s">>), LitI(<<"m","o","n","t","h","s">>), LitI(<<"y","e","a","r","s">>)>>)>>

\* r'^\d{4}s?\s+'
YearPrefixPattern ==
  <<Bol, Rep(<<In(Digits)>>, 4, 4, FALSE), Opt(Lit(<<"s">>)), Plus(<<In(Whitespace)>>)>>

\* r'^(early|mid|late)[\s-]\d{4}s?\s+', re.IGNORECASE
EraPrefixPattern ==
  <<Bol, Grp(1, <<Alt(<<LitI(<<"e","a","r","l","y">>), LitI(<<"m","i","d">>), LitI(<<"l","a","t","e">>)>>)>>), In(Whitespace \cup {"-"}),
    Rep(<<In(Digits)>>, 4, 4, FALSE), Opt(LitI(<<"s">>)), Plus(<<In(Whitespace)>>)>>

\* r'^(fifteenth|...|twenty-second)[\s-]century\s+', re.IGNORECASE
CenturyPrefixPattern ==
  <<Bol, Grp(1, <<Alt([k \in 1..Len(CenturyWords) |-> LitI(CenturyWords[k])])>>),
    In(Whitespace \cup {"-"})>>
  \o LitI(<<"c","e","n","t","u","r","y">>) \o <<Plus(<<In(Whitespace)>>)>>

\* r'(?:from\s+)?([A-Z][a-zA-Z\s]+?)\s+to\s+([A-Z][a-zA-Z\s]+?)$'
JourneyPattern ==
  <<Opt(Lit(<<"f","r","o","m">>) \o <<Plus(<<In(Whitespace)>>)>>),
    Grp(1, <<In(UpperSet), PlusLazy(<<In(LetterOrSpace)>>)>>),
    Plus(<<In(Whitespace)>>)>>
  \o Lit(<<"t","o">>)
  \o <<Plus(<<In(Whitespace)>>),
       Grp(2, <<In(UpperSet), PlusLazy(<<In(LetterOrSpace)>>)>>),
       Eol>>

\* r' and | & '
ConjunctionPattern == <<Alt(<<Lit(<<" ","a","n","d"," ">>), Lit(<<" ","&"," ">>)>>)>>

\* r'\s+'
WhitespaceRun == <<Plus(<<In(Whitespace)>>)>>

\* [A-Z][a-z]+(?:\s+[A-Z][a-z]+)?
CapWords ==
  <<In(UpperSet), Plus(<<In(LowerSet)>>),
    Opt(<<Plus(<<In(Whitespace)>>), In(UpperSet), Plus(<<In(LowerSet)>>)>>)>>

\* r'\b(?:fifteenth|...|twenty-second)-century\s+([A-Z][a-z]+(?:\s+[A-Z][a-z]+)?)'
CenturyPlacePattern ==
  <<WordBoundary, Alt([k \in 1..Len(CenturyWords) |-> Lit(CenturyWords[k])])>>
  \o Lit(<<"-","c","e","n","t","u","r","y">>)
  \o <<Plus(<<In(Whitespace)>>), Grp(1, CapWords)>>

\* r'\bpresent-day\s+([A-Z][a-z]+(?:\s+[A-Z][a-z]+)?)'
PresentDayPattern ==
  <<WordBoundary>> \o Lit(<<"p","r","e","s","e","n","t","-","d","a","y">>)
  \o <<Plus(<<In(Whitespace)>>), Grp(1, CapWords)>>

\* r'\b([A-Z][a-z]+(?:\s+[A-Z][a-z]+)?),\s+([A-Z][a-z]+(?:\s+[A-Z][a-z]+)?)'
CityRegionPattern ==
  <<WordBoundary, Grp(1, CapWords)>> \o Lit(<<",">>)
  \o <<Plus(<<In(Whitespace)>>), Grp(2, CapWords)>>

\* place_patterns, in the order of the list
place_patterns == <<CenturyPlacePattern, PresentDayPattern, CityRegionPattern>>

\* r'^\d{4}s?$'
BareYearPattern ==
  <<Bol, Rep(<<In(Digits)>>, 4, 4, FALSE), Opt(Lit(<<"s">>)), Eol>>

\* skip_phrases
skip_phrases ==
  {<<"t","h","e"," ","u","n","i","t","e","d"," ","s","t","a","t","e","s">>,
   <<"t","h","e"," ","u","n","i","t","e","d"," ","k","i","n","g","d","o","m">>,
   <<"t","h","e"," ","n","o","v","e","l">>,
   <<"t","h","e"," ","b","o","o","k">>,
   <<"t","h","e"," ","s","t","o","r","y">>}

\* ------------------------------------------------------------------------
\* extract_locations_from_text: the steps of the function body
\* ------------------------------------------------------------------------
MinLength == 3

MaxLength == 100

MaxLocations == 5

\* 3 < len(x) < 100
LengthOk(x) == MinLength < Len(x) /\ Len(x) < MaxLength

\* the cleaning without the removal of the year prefix
CleanKeepingYearPrefix(captured) ==
  Sub(Sub(Sub(Sub(Strip(captured),
                  WhitespaceRun, <<" ">>),
              TemporalPattern, <<>>),
          EraPrefixPattern, <<>>),
      CenturyPrefixPattern, <<>>)

\* the cleaning without the removal of the century prefix
CleanKeepingCenturyPrefix(captured) ==
  Sub(Sub(Sub(Sub(Strip(captured),
                  WhitespaceRun, <<" ">>),
              TemporalPattern, <<>>),
          YearPrefixPattern, <<>>),
      EraPrefixPattern, <<>>)

\* The cleaning of one captured phrase: strip, collapse whitespace, remove
\* the temporal phrase, then the year, era and century prefixes.
CleanLocationText(captured) ==
  Sub(Sub(Sub(Sub(Sub(Strip(captured),
                      WhitespaceRun, <<" ">>),
                  TemporalPattern, <<>>),
              YearPrefixPattern, <<>>),
          EraPrefixPattern, <<>>),
      CenturyPrefixPattern, <<>>)

\* a location is appended when 3 < len(loc) < 100
IfLengthOk(loc) == IF LengthOk(loc) THEN <<loc>> ELSE <<>>

\* start_loc and end_loc of a journey match, each kept when 3 < len < 100
JourneyLocations(s, jm) ==
  IfLengthOk(Strip(Group(s, jm, 1))) \o IfLengthOk(Strip(Group(s, jm, 2)))

\* one piece of the split: kept when 3 < len < 100 and it does not start with "the "
ConjunctionPiece(loc) ==
  IF LengthOk(loc) /\ ~StartsWith(Lower(loc), <<"t","h","e"," ">>) THEN <<loc>> ELSE <<>>

\* the pieces of re.split(r' and | & ', location_text) that are appended
RECURSIVE ConjunctionLocations(_)
ConjunctionLocations(pieces) ==
  IF Len(pieces) = 0 THEN <<>>
  ELSE ConjunctionPiece(StripChars(Strip(Head(pieces)), {","}))
       \o ConjunctionLocations(Tail(pieces))

\* the journey locations without "continue": the split comes after them
JourneyThenConjunction(location_text, journey_match) ==
  IF journey_match.ok
  THEN JourneyLocations(Strip(location_text), journey_match)
       \o ConjunctionLocations(Split(location_text, ConjunctionPattern))
  ELSE ConjunctionLocations(Split(location_text, ConjunctionPattern))

\* "if journey_match: ... continue", else the split on " and " / " & "
JourneyOrConjunction(location_text, journey_match) ==
  IF journey_match.ok
  THEN JourneyLocations(Strip(location_text), journey_match)
  ELSE ConjunctionLocations(Split(location_text, ConjunctionPattern))

\* the locations appended for a cleaned location_text
LocationsOf(location_text) ==
  JourneyOrConjunction(location_text, Search(Strip(location_text), JourneyPattern, 1))

\* The body of the inner loop over the matches of a setting pattern: the
\* locations appended for one match.
SettingMatchLocations(text, m) == LocationsOf(CleanLocationText(Group(text, m, 1)))

\* len(match.groups())
GroupCount(pattern) == Cardinality({i \in 1..Len(pattern) : pattern[i].t = "grp"})

\* "if loc and 3 < len(loc) < 100: locations.append(loc.strip())"
PlaceLocation(loc) == IF Len(loc) > 0 /\ LengthOk(loc) THEN <<Strip(loc)>> ELSE <<>>

\* the loop body taking the first group only, whatever the number of groups
PlaceMatchFirstGroup(text, m, pattern) == PlaceLocation(Group(text, m, 1))

\* The body of the loop over the matches of a place pattern: two groups
\* are joined with ", ", one group is taken as it is.
PlaceMatchLocations(text, m, pattern) ==
  PlaceLocation(IF GroupCount(pattern) = 2
                THEN Group(text, m, 1) \o <<",", " ">> \o Group(text, m, 2)
                ELSE Group(text, m, 1))

\* re.match(r'^\d{4}s?$', loc_clean)
IsBareYear(loc_clean) == Match(loc_clean, BareYearPattern, 1, NoCaps).ok

\* the return statement without the slice
TruncateNothing(list) == list

\* unique_locations[:5]
Truncate(list) == SubSeq(list, 1, IF Len(list) < MaxLocations THEN Len(list) ELSE MaxLocations)


\* ------------------------------------------------------------------------
\* Input texts
\* ------------------------------------------------------------------------
\* Scenario C of the specification:
\* "The journey goes from Nebraska to New York City over several weeks."
ScenarioC ==
  <<"T","h","e"," ","j","o","u","r","n","e","y"," ","g","o","e","s"," ","f","r","o","m"," ","N","e","b","r","a","s","k","a"," ","t","o"," ","N","e","w"," ","Y","o","r","k"," ","C","i","t","y"," ","o","v","e","r"," ","s","e","v","e","r","a","l"," ","w","e","e","k","s",".">>

\* Scenario A of the specification:
\* "The novel is set in Paris, France during the war."
ScenarioA ==
  <<"T","h","e"," ","n","o","v","e","l"," ","i","s"," ","s","e","t"," ","i","n"," ","P","a","r","i","s",","," ","F","r","a","n","c","e"," ","d","u","r","i","n","g"," ","t","h","e"," ","w","a","r",".">>

\* Scenario B of the specification:
\* "The story takes place in 1960s Southern California and follows a family."
ScenarioB ==
  <<"T","h","e"," ","s","t","o","r","y"," ","t","a","k","e","s"," ","p","l","a","c","e"," ","i","n"," ","1","9","6","0","s"," ","S","o","u","t","h","e","r","n"," ","C","a","l","i","f","o","r","n","i","a"," ","a","n","d"," ","f","o","l","l","o","w","s"," ","a"," ","f","a","m","i","l","y",".">>

\* Scenario D of the specification:
\* "Centers around a detective in nineteenth-century Constantinople."
ScenarioD ==
  <<"C","e","n","t","e","r","s"," ","a","r","o","u","n","d"," ","a"," ","d","e","t","e","c","t","i","v","e"," ","i","n"," ","n","i","n","e","t","e","e","n","t","h","-","c","e","n","t","u","r","y"," ","C","o","n","s","t","a","n","t","i","n","o","p","l","e",".">>

\* Scenario E of the specification:
\* "A quiet character study of grief and memory."
ScenarioE ==
  <<"A"," ","q","u","i","e","t"," ","c","h","a","r","a","c","t","e","r"," ","s","t","u","d","y"," ","o","f"," ","g","r","i","e","f"," ","a","n","d"," ","m","e","m","o","r","y",".">>

\* None passed as the text: a value that is not a string
NoText == <<"None">>

\* Sentences of plot-summary prose that texts are made of:
\*   1  Set in Rome, Italy, and present-day Oslo.
\*   2  Takes place in Lima, Peru, and nineteenth-century Cuzco.
\*   3  Set in , Rome.
\*   4  Set in 1960s.
\*   5  Takes place in 1960S.
\*   6  A novel set in Paris and London.
\*   7  Set in , the book.
\*   8  Set in , Ayr.
\*   9  Set in from Rome to Oslo.
Sentences ==
  <<<<"S","e","t"," ","i","n"," ","R","o","m","e",","," ","I","t","a","l","y",","," ","a","n","d"," ","p","r","e","s","e","n","t","-","d","a","y"," ","O","s","l","o",".">>,
    <<"T","a","k","e","s"," ","p","l","a","c","e"," ","i","n"," ","L","i","m","a",","," ","P","e","r","u",","," ","a","n","d"," ","n","i","n","e","t","e","e","n","t","h","-","c","e","n","t","u","r","y"," ","C","u","z","c","o",".">>,
    <<"S","e","t"," ","i","n"," ",","," ","R","o","m","e",".">>,
    <<"S","e","t"," ","i","n"," ","1","9","6","0","s",".">>,
    <<"T","a","k","e","s"," ","p","l","a","c","e"," ","i","n"," ","1","9","6","0","S",".">>,
    <<"A"," ","n","o","v","e","l"," ","s","e","t"," ","i","n"," ","P","a","r","i","s"," ","a","n","d"," ","L","o","n","d","o","n",".">>,
    <<"S","e","t"," ","i","n"," ",","," ","t","h","e"," ","b","o","o","k",".">>,
    <<"S","e","t"," ","i","n"," ",","," ","A","y","r",".">>,
    <<"S","e","t"," ","i","n"," ","f","r","o","m"," ","R","o","m","e"," ","t","o"," ","O","s","l","o",".">>>>

MaxSentences == 2

RECURSIVE TextsOfLength(_)
TextsOfLength(n) ==
  IF n = 1 THEN {Sentences[k] : k \in 1..Len(Sentences)}
  ELSE {t \o <<" ">> \o Sentences[k] : t \in TextsOfLength(n - 1), k \in 1..Len(Sentences)}

\* Further texts of one sentence:
\*   Set in Bonn & Rome to Oslo.
\*   Located in Paris in the spring.
\*   Set in from The Hague to Oslo.
\*   Set in The Hague, Netherlands.
\*   Set in nineteenth-century 1960s Rome.
\*   Set in Rome & 1960s Paris.
FurtherTexts ==
  {<<"S","e","t"," ","i","n"," ","B","o","n","n"," ","&"," ","R","o","m","e"," ","t","o"," ","O","s","l","o",".">>,
   <<"L","o","c","a","t","e","d"," ","i","n"," ","P","a","r","i","s"," ","i","n"," ","t","h","e"," ","s","p","r","i","n","g",".">>,
   <<"S","e","t"," ","i","n"," ","f","r","o","m"," ","T","h","e"," ","H","a","g","u","e"," ","t","o"," ","O","s","l","o",".">>,
   <<"S","e","t"," ","i","n"," ","T","h","e"," ","H","a","g","u","e",","," ","N","e","t","h","e","r","l","a","n","d","s",".">>,
   <<"S","e","t"," ","i","n"," ","n","i","n","e","t","e","e","n","t","h","-","c","e","n","t","u","r","y"," ","1","9","6","0","s"," ","R","o","m","e",".">>,
   <<"S","e","t"," ","i","n"," ","R","o","m","e"," ","&"," ","1","9","6","0","s"," ","P","a","r","i","s",".">>}

\* None, the empty text, the scenario texts, the further texts and every text
\* of 1..MaxSentences sentences
Texts ==
  {NoText, <<>>, ScenarioA, ScenarioB, ScenarioC, ScenarioD, ScenarioE}
    \cup FurtherTexts
    \cup UNION {TextsOfLength(n) : n \in 1..MaxSentences}

\* ------------------------------------------------------------------------
\* State: calls of extract_locations_from_text
\* ------------------------------------------------------------------------
VARIABLES
  text,              \* the argument of the call in progress
  pc,                \* "call", "setting", "place", "dedup", "done", "raised"
  pattern_index,     \* position of the for loop in setting_patterns / place_patterns
  locations,         \* the list locations
  origin,            \* for each entry of locations: the pattern and match it came from
  loc_index,         \* position of the for loop over locations
  seen,              \* the set seen
  unique_locations,  \* the list unique_locations
  kept_index,        \* for each entry of unique_locations: its index in locations
  result,            \* the returned list
  calls              \* the calls that have returned: argument and returned list

\* State of a run of enrich_books.main
VARIABLES
  args,                     \* the parsed command line
  books_file,               \* books.yaml: whether it exists, how often it was opened
                            \* for writing, and the books it holds
  books,                    \* data['books']: the list of book entries
  main_pc,                  \* "start", "metadata", "locations", "write", "end", "exit"
  sparse_books,             \* the list sparse_books
  sparse_pos,               \* position of the for loop over sparse_books
  enrichment,               \* what get_enrichment_for_book returned in the last iteration
  response,                 \* the last prompt: its kind, its book and the answer typed
  displayed,                \* the fields display_changes showed as NEW in the last iteration
  applied,                  \* the list apply_enrichment returned last
  enriched_count,
  skipped_count,
  location_enriched_count,
  books_needing_locations,  \* the list books_needing_locations
  need_pos,                 \* position of the for loop over books_needing_locations
  wiki_text,                \* what fetch_wikipedia_data returned in the last iteration
  wiki_locations,           \* what get_wikipedia_locations returned in the last iteration
  fetched,                  \* the books get_enrichment_for_book was called for, in order
  looked_up                 \* the books get_wikipedia_locations was called for, in order,
                            \* and whether it called extract_locations_from_text

\* State of the calls of build.geocode_location on one cache
VARIABLES
  cache,                    \* the dict cache
  geocoder_queries,         \* the calls of geolocator.geocode: name and outcome
  slept,                    \* time spent in time.sleep, in tenths of a second
  geocode_calls             \* the calls of geocode_location: name and returned triple

\* State of one call of build.process_books
VARIABLES
  books_data,               \* the argument books_data
  process_pc,               \* "idle", "books" (in the loop over books_data), "returned"
  book_pos,                 \* position of the for loop over books_data
  loc_pos,                  \* position of the for loop over book['locations']
  processed_locations,      \* the list processed_locations of the book at book_pos
  processed_books           \* the list processed_books

extractVars == <<text, pc, pattern_index, locations, origin, loc_index, seen,
                 unique_locations, kept_index, result, calls>>

mainVars == <<args, books_file, books, main_pc, sparse_books, sparse_pos, enrichment,
              response, displayed, applied, enriched_count, skipped_count,
              location_enriched_count, books_needing_locations, need_pos,
              wiki_text, wiki_locations, fetched, looked_up>>

geocodeVars == <<cache, geocoder_queries, slept, geocode_calls>>

processVars == <<books_data, process_pc, book_pos, loc_pos, processed_locations,
                 processed_books>>

vars == <<extractVars, mainVars, geocodeVars, processVars>>

NotReturned == <<"no result">>

\* the state of the locals before the first call
Fresh ==
  /\ pc = "call"
  /\ pattern_index = 0
  /\ locations = <<>>
  /\ origin = <<>>
  /\ loc_index = 0
  /\ seen = {}
  /\ unique_locations = <<>>
  /\ kept_index = <<>>
  /\ result = NotReturned
  /\ calls = <<>>

\* None as the value of a string-valued key or option
None == "None"

\* the command line before it is parsed: every flag off
NoArgs ==
  [dry_run |-> FALSE, yes |-> FALSE, locations |-> FALSE, all_locations |-> FALSE,
   book_title |-> None]

\* no prompt has been shown
NoResponse == [prompt |-> "none", book |-> 0, answer |-> <<>>]

\* no metadata was fetched
NoEnrichment == [found |-> FALSE, metadata |-> <<>>]

\* the state of main before it starts, over the books b and the command line a
MainFresh(b, a, exists) ==
  /\ args = a
  /\ books_file = [exists |-> exists, opened_for_writing |-> 0, content |-> b]
  /\ books = b
  /\ main_pc = "start"
  /\ sparse_books = <<>>
  /\ sparse_pos = 0
  /\ enrichment = NoEnrichment
  /\ response = NoResponse
  /\ displayed = <<>>
  /\ applied = <<>>
  /\ enriched_count = 0
  /\ skipped_count = 0
  /\ location_enriched_count = 0
  /\ books_needing_locations = <<>>
  /\ need_pos = 0
  /\ wiki_text = NoText
  /\ wiki_locations = <<>>
  /\ fetched = <<>>
  /\ looked_up = <<>>

\* process_books is not run
ProcessIdle ==
  /\ books_data = <<>>
  /\ process_pc = "idle"
  /\ book_pos = 0
  /\ loc_pos = 0
  /\ processed_locations = <<>>
  /\ processed_books = <<>>

\* main is not run
MainIdle == MainFresh(<<>>, NoArgs, FALSE)

\* an empty cache and no call of geocode_location
GeocodeFresh ==
  /\ cache = <<>>
  /\ geocoder_queries = <<>>
  /\ slept = 0
  /\ geocode_calls = <<>>

Init == text \in Texts /\ Fresh /\ MainIdle /\ GeocodeFresh /\ ProcessIdle

\* the locations of one match, each with the pattern and match it came from
Tagged(locs, kind, k, start) ==
  [i \in 1..Len(locs) |-> [loc |-> locs[i], kind |-> kind, pattern |-> k, start |-> start]]

\* the matches of one pattern taken last to first
RECURSIVE MatchesLocationsReversed(_, _, _, _)
MatchesLocationsReversed(t, matches, kind, k) ==
  IF Len(matches) = 0 THEN <<>>
  ELSE MatchesLocationsReversed(t, Tail(matches), kind, k)
       \o Tagged(IF kind = "setting" THEN SettingMatchLocations(t, Head(matches))
                 ELSE PlaceMatchLocations(t, Head(matches), place_patterns[k]),
                 kind, k, Head(matches).start)

\* the locations appended by all matches of one pattern, in the order of the matches
RECURSIVE MatchesLocations(_, _, _, _)
MatchesLocations(t, matches, kind, k) ==
  IF Len(matches) = 0 THEN <<>>
  ELSE Tagged(IF kind = "setting" THEN SettingMatchLocations(t, Head(matches))
              ELSE PlaceMatchLocations(t, Head(matches), place_patterns[k]),
              kind, k, Head(matches).start)
       \o MatchesLocations(t, Tail(matches), kind, k)

\* locations.append for every entry of found
AppendFound(found) ==
  /\ locations' = locations \o [i \in 1..Len(found) |-> found[i].loc]
  /\ origin' = origin \o [i \in 1..Len(found) |->
                            [kind |-> found[i].kind, pattern |-> found[i].pattern,
                             start |-> found[i].start]]

\* "return value": the call ends and is recorded
Returns(value) ==
  /\ result' = value
  /\ calls' = Append(calls, [text |-> text, result |-> value])
  /\ pc' = "done"

\* locations kept from one call to the next
StaleLocations == locations

\* "locations = []"
FreshLocations == <<>>

\* seen kept from one call to the next
StaleSeen == seen

\* "seen = set()"
FreshSeen == {}

\* "unique_locations = []"
FreshUnique == <<>>

\* a test that takes the empty string only
EmptyString(t) == t # NoText /\ Len(t) = 0

\* "not text": true of None and of the empty string
Not(t) == t = NoText \/ Len(t) = 0

\* "if not text: return []", else "locations = []" and the first loop begins;
\* re.finditer(pattern, None) raises TypeError at the first iteration
Enter ==
  /\ pc = "call"
  /\ IF Not(text)
     THEN /\ Returns(<<>>)
          /\ UNCHANGED <<pattern_index, locations, origin>>
     ELSE IF text = NoText
     THEN /\ pc' = "raised"
          /\ UNCHANGED <<pattern_index, locations, origin, result, calls>>
     ELSE /\ locations' = FreshLocations
          /\ origin' = <<>>
          /\ pattern_index' = 1
          /\ pc' = "setting"
          /\ UNCHANGED <<result, calls>>
  /\ UNCHANGED <<text, loc_index, seen, unique_locations, kept_index>>
  /\ UNCHANGED <<mainVars, geocodeVars, processVars>>

\* one iteration of "for pattern in setting_patterns"
SettingPatternStep ==
  /\ pc = "setting"
  /\ AppendFound(MatchesLocations(text, FindIter(text, setting_patterns[pattern_index]),
                                  "setting", pattern_index))
  /\ IF pattern_index < Len(setting_patterns)
     THEN pattern_index' = pattern_index + 1 /\ pc' = "setting"
     ELSE pattern_index' = 1 /\ pc' = "place"
  /\ UNCHANGED <<text, loc_index, seen, unique_locations, kept_index, result, calls>>
  /\ UNCHANGED <<mainVars, geocodeVars, processVars>>

\* one iteration of "for pattern in place_patterns"; after the last one,
\* "seen = set()" and "unique_locations = []"
PlacePatternStep ==
  /\ pc = "place"
  /\ AppendFound(MatchesLocations(text, FindIter(text, place_patterns[pattern_index]),
                                  "place", pattern_index))
  /\ IF pattern_index < Len(place_patterns)
     THEN /\ pattern_index' = pattern_index + 1
          /\ pc' = "place"
          /\ UNCHANGED <<loc_index, seen, unique_locations, kept_index>>
     ELSE /\ pattern_index' = 0
          /\ pc' = "dedup"
          /\ loc_index' = 1
          /\ seen' = FreshSeen
          /\ unique_locations' = FreshUnique
          /\ kept_index' = <<>>
  /\ UNCHANGED <<text, result, calls>>
  /\ UNCHANGED <<mainVars, geocodeVars, processVars>>

\* the loop body without the test for a bare year
KeptWithoutYearTest(loc, seenSet) ==
  /\ ~(Lower(loc) \in skip_phrases \/ Lower(loc) \in seenSet)
  /\ ~(Len(Strip(loc)) < MinLength \/ Len(Strip(loc)) > MaxLength)

\* the tests of the loop body of "for loc in locations": TRUE when none of
\* the three "continue" is taken
Kept(loc, seenSet) ==
  /\ ~IsBareYear(Strip(loc))
  /\ ~(Lower(loc) \in skip_phrases \/ Lower(loc) \in seenSet)
  /\ ~(Len(Strip(loc)) < MinLength \/ Len(Strip(loc)) > MaxLength)

\* one iteration of "for loc in locations"
DedupStep ==
  /\ pc = "dedup"
  /\ loc_index <= Len(locations)
  /\ IF Kept(locations[loc_index], seen)
     THEN /\ seen' = seen \cup {Lower(locations[loc_index])}
          /\ unique_locations' = Append(unique_locations, Strip(locations[loc_index]))
          /\ kept_index' = Append(kept_index, loc_index)
     ELSE UNCHANGED <<seen, unique_locations, kept_index>>
  /\ loc_index' = loc_index + 1
  /\ UNCHANGED <<text, pc, pattern_index, locations, origin, result, calls>>
  /\ UNCHANGED <<mainVars, geocodeVars, processVars>>

\* "return unique_locations[:5]"
Return ==
  /\ pc = "dedup"
  /\ loc_index > Len(locations)
  /\ Returns(Truncate(unique_locations))
  /\ UNCHANGED <<text, pattern_index, locations, origin, loc_index, seen,
                 unique_locations, kept_index>>
  /\ UNCHANGED <<mainVars, geocodeVars, processVars>>

Next == Enter \/ SettingPatternStep \/ PlacePatternStep \/ DedupStep \/ Return

\* one call on one text
Spec == Init /\ [][Next]_vars

\* ------------------------------------------------------------------------
\* Several calls, one after the other
\* ------------------------------------------------------------------------
MaxCalls == 3

\* the texts of the repeated calls: the empty text, scenario E and three
\* sentences
CallTexts == {<<>>, ScenarioE} \cup {Sentences[k] : k \in {1, 3, 4}}

\* the caller calls again, on any text; nothing else is touched
CallAgain(t) ==
  /\ pc = "done"
  /\ Len(calls) < MaxCalls
  /\ text' = t
  /\ pc' = "call"
  /\ UNCHANGED <<pattern_index, locations, origin, loc_index, seen, unique_locations,
                 kept_index, result, calls>>
  /\ UNCHANGED <<mainVars, geocodeVars, processVars>>

InitCalls == text \in CallTexts /\ Fresh /\ MainIdle /\ GeocodeFresh /\ ProcessIdle

NextCalls == Next \/ \E t \in CallTexts : CallAgain(t)

SpecCalls == InitCalls /\ [][NextCalls]_vars

\* ------------------------------------------------------------------------
\* enrich_books: dicts, and the functions main calls
\* ------------------------------------------------------------------------
\* ENRICHABLE_FIELDS
ENRICHABLE_FIELDS == <<"isbn", "author", "year", "genre", "cover">>

Range(list) == {list[i] : i \in 1..Len(list)}

\* A dict is a function from its keys. The order in which a dict of
\* metadata lists its keys: the order in which extract_metadata sets them,
\* then any other key.
DictOrder == <<"isbn", "author", "year", "genre", "cover", "title">>

\* the keys of a dict, in the order of iteration
Keys(dict) == SelectSeq(DictOrder, LAMBDA k : k \in DOMAIN dict)

\* dict.get(key, default)
Get(dict, key, default) == IF key \in DOMAIN dict THEN dict[key] ELSE default

\* dict[key] = value
Put(dict, key, value) ==
  [k \in DOMAIN dict \cup {key} |-> IF k = key THEN value ELSE dict[k]]

\* "not value" for the value of a metadata field: None and the empty string
Falsy(value) == value \in {None, ""}

\* identify_missing_fields
identify_missing_fields(book) ==
  SelectSeq(ENRICHABLE_FIELDS, LAMBDA field : field \notin DOMAIN book \/ Falsy(book[field]))

\* display_changes without the restriction to the missing fields
ChangesOfAnyField(metadata, missing_fields) ==
  SelectSeq(ENRICHABLE_FIELDS, LAMBDA field : field \in DOMAIN metadata)

\* display_changes: the list changes, the fields printed as NEW
Changes(metadata, missing_fields) ==
  SelectSeq(missing_fields, LAMBDA field : field \in DOMAIN metadata)

\* display_changes: the returned value
display_changes(metadata, missing_fields) == Changes(metadata, missing_fields) # <<>>

\* the two tests of apply_enrichment without the test on ENRICHABLE_FIELDS
WritesAnyField(book, field) == Falsy(Get(book, field, None))

\* apply_enrichment: the two tests under which a field is written
Writes(book, field) ==
  field \in Range(ENRICHABLE_FIELDS) /\ Falsy(Get(book, field, None))

\* apply_enrichment: the loop over enrichment.items(), from the field at the
\* head of fields on; the book after the loop and the list applied
RECURSIVE ApplyFields(_, _, _)
ApplyFields(book, metadata, fields) ==
  IF fields = <<>> THEN [book |-> book, applied |-> <<>>]
  ELSE IF Writes(book, Head(fields))
  THEN [book |-> ApplyFields(Put(book, Head(fields), metadata[Head(fields)]),
                             metadata, Tail(fields)).book,
        applied |-> <<Head(fields)>>
                    \o ApplyFields(Put(book, Head(fields), metadata[Head(fields)]),
                                   metadata, Tail(fields)).applied]
  ELSE ApplyFields(book, metadata, Tail(fields))

\* apply_enrichment
apply_enrichment(book, metadata) == ApplyFields(book, metadata, Keys(metadata))

\* "not enrichment": None and the empty dict
NotEnrichment(e) == ~e.found \/ DOMAIN e.metadata = {}

\* input().strip().lower()
Normalised(answer) == Lower(Strip(answer))

\* every answer but "n" counts as a confirmation
ConfirmedUnlessNo(answer) == Normalised(answer) # <<"n">>

\* "response != 'y'" is false
Confirmed(answer) == Normalised(answer) = <<"y">>

\* "response == 'q'"
Quits(answer) == Normalised(answer) = <<"q">>

\* "not args.yes and not args.dry_run": the prompt is shown
Prompted == ~args.yes /\ ~args.dry_run

\* generic_locations
generic_locations ==
  {<<"U","n","i","t","e","d"," ","S","t","a","t","e","s">>,
   <<"U","S","A">>,
   <<"U","n","i","t","e","d"," ","K","i","n","g","d","o","m">>,
   <<"U","K">>,
   <<"E","n","g","l","a","n","d">>,
   <<"G","e","r","m","a","n","y">>,
   <<"F","r","a","n","c","e">>,
   <<"C","h","i","n","a">>,
   <<"R","u","s","s","i","a">>}

\* book.get('locations', [])
BookLocations(book) == Get(book, "locations", <<>>)

\* any(loc.get('name', '').strip() in generic_locations for loc in locations)
AnyGeneric(locs) == \E i \in 1..Len(locs) : Strip(locs[i].name) \in generic_locations

\* the test of the loop that fills books_needing_locations
NeedsLocations(book) ==
  /\ ~(args.book_title \notin {None, ""} /\ Get(book, "title", "") # args.book_title)
  /\ \/ args.all_locations
     \/ BookLocations(book) = <<>>
     \/ AnyGeneric(BookLocations(book))

\* existing_names: the lowercased names of the book's locations
ExistingNames(book) ==
  {Lower(BookLocations(book)[i].name) : i \in 1..Len(BookLocations(book))}

\* the list added: the names of wiki_locations that are not in existing_names
Added(book, names) == SelectSeq(names, LAMBDA loc_name : Lower(loc_name) \notin ExistingNames(book))

\* "if 'locations' not in book: book['locations'] = []", then the appends
AddLocations(book, names) ==
  Put(book, "locations",
      BookLocations(book) \o [i \in 1..Len(Added(book, names)) |-> [name |-> Added(book, names)[i]]])

Paris == <<"P","a","r","i","s">>

ParisFrance == <<"P","a","r","i","s",","," ","F","r","a","n","c","e">>

Rome == <<"R","o","m","e">>

Oslo == <<"O","s","l","o">>

\* a text for which extract_locations_from_text returns "Rome" twice
RomeOsloRome == Sentences[9] \o <<" ">> \o Sentences[3]

\* what fetch_wikipedia_data can return: None or the prose of an article
WikiTexts == {NoText, ScenarioE, ScenarioA, RomeOsloRome}

\* extract_locations_from_text on the prose of WikiTexts: the lists that the
\* calls of Spec return for these texts
ExtractedLocations(prose) ==
  CASE prose = ScenarioA -> <<Paris, ParisFrance>>
    [] prose = RomeOsloRome -> <<Rome, Oslo, Rome>>
    [] prose = ScenarioE -> <<>>

\* under Spec: a call on a text of the table returns the list of the table
ExtractedLocationsAgree ==
  (pc = "done" /\ text \in WikiTexts \ {NoText}) => result = ExtractedLocations(text)

\* None as the value of wiki_locations
NoLocations == <<NoText>>

\* get_wikipedia_locations calls extract_locations_from_text whatever
\* fetch_wikipedia_data returned
ExtractsAlways(prose) == TRUE

\* get_wikipedia_locations reaches its call of extract_locations_from_text:
\* "if not wiki_text: return None" was not taken
Extracts(prose) == ~Not(prose)

\* get_wikipedia_locations, given what fetch_wikipedia_data returned
get_wikipedia_locations(prose) ==
  IF Not(prose) THEN NoLocations
  ELSE IF ExtractedLocations(prose) # <<>> THEN ExtractedLocations(prose)
  ELSE NoLocations

\* ------------------------------------------------------------------------
\* enrich_books.main: one run
\* ------------------------------------------------------------------------
MaxBooks == 2

\* Book entries of books.yaml:
\*   Dune     every enrichable field filled, no key "locations"
\*   Emma     author filled, year empty, isbn, genre and cover absent; the
\*            generic location "USA"
\*   Ulysses  every enrichable field filled; the location "paris"
BookChoices ==
  {[title |-> "Dune", isbn |-> "old", author |-> "old", year |-> "old", genre |-> "old",
    cover |-> "old"],
   [title |-> "Emma", author |-> "old", year |-> "",
    locations |-> <<[name |-> <<"U","S","A">>]>>],
   [title |-> "Ulysses", isbn |-> "old", author |-> "old", year |-> "old", genre |-> "old",
    cover |-> "old", locations |-> <<[name |-> <<"p","a","r","i","s">>]>>]}

\* the lists of 0..MaxBooks book entries
BookLists == UNION {[1..n -> BookChoices] : n \in 0..MaxBooks}

\* the command lines: every combination of the four flags, with or without
\* --book-title
ArgsChoices ==
  [dry_run : BOOLEAN, yes : BOOLEAN, locations : BOOLEAN, all_locations : BOOLEAN,
   book_title : {None, "Emma"}]

\* what get_enrichment_for_book can return: None, or the dict extract_metadata
\* built, here empty, with an author, or with isbn, author and year
Enrichments ==
  {NoEnrichment,
   [found |-> TRUE, metadata |-> <<>>],
   [found |-> TRUE, metadata |-> [author |-> "new"]],
   [found |-> TRUE, metadata |-> [isbn |-> "new", author |-> "new", year |-> "new"]]}

\* what the user can type at a prompt: "y", " Y", "q", "n" and nothing
Answers == {<<"y">>, <<" ", "Y">>, <<"q">>, <<"n">>, <<>>}

\* the list sparse_books: index and missing fields of each book that has
\* missing fields (the book itself is books[idx])
SparseBooks(list) ==
  SelectSeq([i \in 1..Len(list) |->
               [idx |-> i, missing_fields |-> identify_missing_fields(list[i])]],
            LAMBDA entry : entry.missing_fields # <<>>)

\* the list books_needing_locations, as indices into books
BooksNeedingLocations(list) ==
  SelectSeq([i \in 1..Len(list) |-> i], LAMBDA i : NeedsLocations(list[i]))

\* the first lines of main: books.yaml is looked for and loaded, sparse_books
\* is computed; "sys.exit(1)" without the file, "return" without sparse books
Start ==
  /\ main_pc = "start"
  /\ IF ~books_file.exists
     THEN /\ main_pc' = "exit"
          /\ UNCHANGED <<sparse_books, sparse_pos>>
     ELSE /\ sparse_books' = SparseBooks(books)
          /\ IF SparseBooks(books) = <<>>
             THEN main_pc' = "end" /\ UNCHANGED sparse_pos
             ELSE main_pc' = "metadata" /\ sparse_pos' = 1
  /\ UNCHANGED <<args, books_file, books, enrichment, response, displayed, applied,
                 enriched_count, skipped_count, location_enriched_count,
                 books_needing_locations, need_pos, wiki_text, wiki_locations, fetched, looked_up>>
  /\ UNCHANGED <<extractVars, geocodeVars, processVars>>

\* "if not args.dry_run" before apply_enrichment
Applies == ~args.dry_run

\* "skipped_count += 1; continue"
SkipBook ==
  /\ skipped_count' = skipped_count + 1
  /\ sparse_pos' = sparse_pos + 1
  /\ UNCHANGED <<books, applied, enriched_count>>

\* 'q' handled as 'continue': the loop goes on with the next book
NextBook == sparse_pos + 1

\* "if response == 'q': ... break": the for loop over sparse_books is left
LeavesLoop == Len(sparse_books) + 1

\* the end of an iteration of the metadata loop, from the prompt on
ConfirmAndApply(idx, metadata, answer) ==
  IF Prompted /\ Quits(answer)
  THEN /\ sparse_pos' = LeavesLoop
       /\ UNCHANGED <<books, applied, enriched_count, skipped_count>>
  ELSE IF Prompted /\ ~Confirmed(answer)
  THEN SkipBook
  ELSE IF Applies
  THEN /\ books' = [books EXCEPT ![idx] = apply_enrichment(books[idx], metadata).book]
       /\ applied' = apply_enrichment(books[idx], metadata).applied
       /\ enriched_count' = IF apply_enrichment(books[idx], metadata).applied # <<>>
                             THEN enriched_count + 1 ELSE enriched_count
       /\ sparse_pos' = sparse_pos + 1
       /\ UNCHANGED skipped_count
  ELSE /\ enriched_count' = enriched_count + 1
       /\ sparse_pos' = sparse_pos + 1
       /\ UNCHANGED <<books, applied, skipped_count>>

\* one iteration of "for idx, book, missing_fields in sparse_books", with
\* what get_enrichment_for_book returns and what the user types
MetadataIteration(entry, e, answer) ==
  /\ fetched' = Append(fetched, entry.idx)
  /\ enrichment' = e
  /\ IF NotEnrichment(e)
     THEN /\ SkipBook
          /\ UNCHANGED <<displayed, response>>
     ELSE /\ displayed' = Changes(e.metadata, entry.missing_fields)
          /\ IF ~display_changes(e.metadata, entry.missing_fields)
             THEN SkipBook /\ UNCHANGED response
             ELSE /\ response' = IF Prompted
                                 THEN [prompt |-> "metadata", book |-> entry.idx,
                                       answer |-> answer]
                                 ELSE response
                  /\ ConfirmAndApply(entry.idx, e.metadata, answer)

MetadataStep ==
  /\ main_pc = "metadata"
  /\ sparse_pos <= Len(sparse_books)
  /\ \E e \in Enrichments, answer \in Answers :
       MetadataIteration(sparse_books[sparse_pos], e, answer)
  /\ UNCHANGED <<args, books_file, main_pc, sparse_books, location_enriched_count,
                 books_needing_locations, need_pos, wiki_text, wiki_locations, looked_up>>
  /\ UNCHANGED <<extractVars, geocodeVars, processVars>>

\* the metadata loop is left; "if args.locations:" and the loop that fills
\* books_needing_locations
MetadataDone ==
  /\ main_pc = "metadata"
  /\ sparse_pos > Len(sparse_books)
  /\ IF args.locations
     THEN /\ books_needing_locations' = BooksNeedingLocations(books)
          /\ need_pos' = 1
          /\ main_pc' = "locations"
     ELSE /\ main_pc' = "write"
          /\ UNCHANGED <<books_needing_locations, need_pos>>
  /\ UNCHANGED <<args, books_file, books, sparse_books, sparse_pos, enrichment, response,
                 displayed, applied, enriched_count, skipped_count,
                 location_enriched_count, wiki_text, wiki_locations, fetched, looked_up>>
  /\ UNCHANGED <<extractVars, geocodeVars, processVars>>

\* "if not args.dry_run" before the locations are added
Adds == ~args.dry_run

\* the end of an iteration of the location loop, from the prompt on
ConfirmAndAdd(idx, names, answer) ==
  IF Prompted /\ Quits(answer)
  THEN /\ need_pos' = Len(books_needing_locations) + 1
       /\ UNCHANGED <<books, location_enriched_count>>
  ELSE IF Prompted /\ ~Confirmed(answer)
  THEN /\ need_pos' = need_pos + 1
       /\ UNCHANGED <<books, location_enriched_count>>
  ELSE IF Adds
  THEN /\ books' = [books EXCEPT ![idx] = AddLocations(books[idx], names)]
       /\ location_enriched_count' = IF Added(books[idx], names) # <<>>
                                      THEN location_enriched_count + 1
                                      ELSE location_enriched_count
       /\ need_pos' = need_pos + 1
  ELSE /\ location_enriched_count' = location_enriched_count + 1
       /\ need_pos' = need_pos + 1
       /\ UNCHANGED books

\* one iteration of "for idx, book in books_needing_locations", with what
\* fetch_wikipedia_data returns and what the user types
LocationIteration(idx, prose, answer) ==
  /\ wiki_text' = prose
  /\ looked_up' = Append(looked_up, [book |-> idx, extracted |-> Extracts(prose)])
  /\ wiki_locations' = get_wikipedia_locations(prose)
  /\ IF get_wikipedia_locations(prose) = NoLocations
     THEN /\ need_pos' = need_pos + 1
          /\ UNCHANGED <<books, location_enriched_count, response>>
     ELSE /\ response' = IF Prompted
                            THEN [prompt |-> "locations", book |-> idx, answer |-> answer]
                            ELSE response
          /\ ConfirmAndAdd(idx, get_wikipedia_locations(prose), answer)

LocationStep ==
  /\ main_pc = "locations"
  /\ need_pos <= Len(books_needing_locations)
  /\ \E prose \in WikiTexts, answer \in Answers :
       LocationIteration(books_needing_locations[need_pos], prose, answer)
  /\ UNCHANGED <<args, books_file, main_pc, sparse_books, sparse_pos, enrichment,
                 displayed, applied, enriched_count, skipped_count,
                 books_needing_locations, fetched>>
  /\ UNCHANGED <<extractVars, geocodeVars, processVars>>

\* the location loop is left
LocationsDone ==
  /\ main_pc = "locations"
  /\ need_pos > Len(books_needing_locations)
  /\ main_pc' = "write"
  /\ UNCHANGED <<args, books_file, books, sparse_books, sparse_pos, enrichment, response,
                 displayed, applied, enriched_count, skipped_count,
                 location_enriched_count, books_needing_locations, need_pos,
                 wiki_text, wiki_locations, fetched, looked_up>>
  /\ UNCHANGED <<extractVars, geocodeVars, processVars>>

\* "if not args.dry_run and total_changes > 0" without the test of the flag
WritesWithChanges == enriched_count + location_enriched_count > 0

\* "if not args.dry_run and total_changes > 0"
WritesBack == ~args.dry_run /\ enriched_count + location_enriched_count > 0

\* the end of main: books.yaml is opened for writing and the data dumped
WriteBack ==
  /\ main_pc = "write"
  /\ books_file' = IF WritesBack
                    THEN [books_file EXCEPT !.opened_for_writing = @ + 1,
                                            !.content = books]
                    ELSE books_file
  /\ main_pc' = "end"
  /\ UNCHANGED <<args, books, sparse_books, sparse_pos, enrichment, response, displayed,
                 applied, enriched_count, skipped_count, location_enriched_count,
                 books_needing_locations, need_pos, wiki_text, wiki_locations, fetched, looked_up>>
  /\ UNCHANGED <<extractVars, geocodeVars, processVars>>

\* no call of extract_locations_from_text is in progress
ExtractIdle == text = <<>> /\ Fresh

InitMain ==
  /\ ExtractIdle
  /\ GeocodeFresh
  /\ ProcessIdle
  /\ \E b \in BookLists, a \in ArgsChoices, exists \in BOOLEAN : MainFresh(b, a, exists)

NextMain ==
  Start \/ MetadataStep \/ MetadataDone \/ LocationStep \/ LocationsDone \/ WriteBack

\* one run of main
SpecMain == InitMain /\ [][NextMain]_vars

\* ------------------------------------------------------------------------
\* apply_enrichment called on any book and any dict
\* ------------------------------------------------------------------------
\* the keys of the dicts: the enrichable fields and "title"
DictKeys == Range(DictOrder)

\* every dict over some of the keys with values in values
Dicts(values) == UNION {[keys -> values] : keys \in SUBSET DictKeys}

\* the call apply_enrichment(books[1], enrichment.metadata)
ApplyEnrichmentCall ==
  /\ main_pc = "apply_enrichment"
  /\ books' = <<apply_enrichment(books[1], enrichment.metadata).book>>
  /\ applied' = apply_enrichment(books[1], enrichment.metadata).applied
  /\ main_pc' = "applied"
  /\ UNCHANGED <<args, books_file, sparse_books, sparse_pos, enrichment, response,
                 displayed, enriched_count, skipped_count, location_enriched_count,
                 books_needing_locations, need_pos, wiki_text, wiki_locations, fetched, looked_up>>
  /\ UNCHANGED <<extractVars, geocodeVars, processVars>>

\* the arguments: a book whose present fields are empty or filled, and a
\* dict of new values
InitApply ==
  /\ ExtractIdle
  /\ GeocodeFresh
  /\ ProcessIdle
  /\ books \in {<<book>> : book \in Dicts({"", "old"})}
  /\ enrichment \in {[found |-> TRUE, metadata |-> metadata] : metadata \in Dicts({"new"})}
  /\ main_pc = "apply_enrichment"
  /\ args = NoArgs
  /\ books_file = [exists |-> FALSE, opened_for_writing |-> 0, content |-> <<>>]
  /\ sparse_books = <<>>
  /\ sparse_pos = 0
  /\ response = NoResponse
  /\ displayed = <<>>
  /\ applied = <<>>
  /\ enriched_count = 0
  /\ skipped_count = 0
  /\ location_enriched_count = 0
  /\ books_needing_locations = <<>>
  /\ need_pos = 0
  /\ wiki_text = NoText
  /\ wiki_locations = <<>>
  /\ fetched = <<>>
  /\ looked_up = <<>>

NextApply == ApplyEnrichmentCall

\* one call of apply_enrichment
SpecApply == InitApply /\ [][NextApply]_vars

\* ------------------------------------------------------------------------
\* build.geocode_location: calls that share one cache
\* ------------------------------------------------------------------------
\* GEOCODE_DELAY = 1.1 seconds, in tenths of a second
GEOCODE_DELAY == 11

MaxGeocodeCalls == 3

\* the names passed as location_name: three spellings of one place and
\* another place
GeocodeNames == {Rome, <<" ","r","o","m","e">>, <<"R","O","M","E"," ">>, Oslo}

\* what geolocator.geocode does: it returns a location (latitude and
\* longitude written as strings), returns None, or raises GeocoderTimedOut
\* or GeocoderServiceError
GeocoderOutcomes ==
  {[kind |-> "location", lat |-> "41.9", lng |-> "12.5"],
   [kind |-> "location", lat |-> "59.9", lng |-> "10.7"],
   [kind |-> "none", lat |-> None, lng |-> None],
   [kind |-> "raised", lat |-> None, lng |-> None]}

\* the cache key is the name as it was passed
RawKey(location_name) == location_name

\* cache_key = location_name.lower().strip()
CacheKey(location_name) == Strip(Lower(location_name))

\* a cache as load_geocode_cache returns it: empty, or with an entry
CachesAtStart ==
  {<<>>, Put(<<>>, Lower(Oslo), [lat |-> "59.9", lng |-> "10.7", name |-> Oslo])}

\* the call returns the triple (lat, lng, name)
GeocodeReturns(location_name, lat, lng, name) ==
  geocode_calls' = Append(geocode_calls,
                          [location_name |-> location_name, lat |-> lat, lng |-> lng,
                           name |-> name])

\* geocode_location(location_name, cache, geolocator), with what the
\* geocoder does when it is queried
geocode_location(location_name, outcome) ==
  /\ IF CacheKey(location_name) \in DOMAIN cache
     THEN /\ GeocodeReturns(location_name, cache[CacheKey(location_name)].lat,
                            cache[CacheKey(location_name)].lng,
                            cache[CacheKey(location_name)].name)
          /\ UNCHANGED <<cache, geocoder_queries, slept>>
     ELSE /\ slept' = slept + GEOCODE_DELAY
          /\ geocoder_queries' = Append(geocoder_queries,
                                        [location_name |-> location_name,
                                         kind |-> outcome.kind])
          /\ cache' = IF outcome.kind = "location"
                      THEN Put(cache, CacheKey(location_name),
                               [lat |-> outcome.lat, lng |-> outcome.lng,
                                name |-> location_name])
                      ELSE cache
          /\ GeocodeReturns(location_name, outcome.lat, outcome.lng, location_name)

\* one call of geocode_location on the shared cache
GeocodeLocation(location_name, outcome) ==
  /\ Len(geocode_calls) < MaxGeocodeCalls
  /\ geocode_location(location_name, outcome)
  /\ UNCHANGED <<extractVars, mainVars, processVars>>

InitGeocode ==
  /\ ExtractIdle
  /\ MainIdle
  /\ ProcessIdle
  /\ cache \in CachesAtStart
  /\ geocoder_queries = <<>>
  /\ slept = 0
  /\ geocode_calls = <<>>

NextGeocode ==
  \E location_name \in GeocodeNames, outcome \in GeocoderOutcomes :
    GeocodeLocation(location_name, outcome)

\* up to MaxGeocodeCalls calls of geocode_location on one cache
SpecGeocode == InitGeocode /\ [][NextGeocode]_vars

\* ------------------------------------------------------------------------
\* build.process_books: one call
\* ------------------------------------------------------------------------
MaxProcessBooks == 2

\* Book entries of books_data:
\*   Emma        a location with coordinates and one without
\*   Dune        a location without coordinates and one with lat only
\*   Ulysses     a location whose lat and lng are null and one without name
\*   Persuasion  a location whose lng is null
\*   a book without title, one without the key locations, one whose list of
\*   locations is empty
ProcessBookChoices ==
  {[title |-> "Emma", author |-> "Austen",
    locations |-> <<[name |-> Rome, lat |-> "41.9", lng |-> "12.5"], [name |-> Oslo]>>],
   [title |-> "Dune",
    locations |-> <<[name |-> Rome], [name |-> Oslo, lat |-> "59.9"]>>],
   [title |-> "Ulysses",
    locations |-> <<[name |-> Paris, lat |-> None, lng |-> None],
                    [lat |-> "41.9", lng |-> "12.5"]>>],
   [title |-> "Persuasion",
    locations |-> <<[name |-> Paris, lat |-> "48.9", lng |-> None]>>],
   [locations |-> <<[name |-> Rome]>>],
   [title |-> "Walden"],
   [title |-> "Walden", locations |-> <<>>]}

ProcessBookLists ==
  UNION {[1..n -> ProcessBookChoices] : n \in 0..MaxProcessBooks}

\* the two "continue" at the head of the loop over books_data
SkipsBook(book) ==
  IF "title" \notin DOMAIN book THEN TRUE
  ELSE IF "locations" \notin DOMAIN book THEN TRUE
  ELSE book.locations = <<>>

\* "if 'lat' in loc and 'lng' in loc"
HasCoordinates(loc) == "lat" \in DOMAIN loc /\ "lng" \in DOMAIN loc

\* the test of the latitude alone
ResolvedLatitude(lat, lng) == lat # None

\* "if lat is not None and lng is not None"
Resolved(lat, lng) == lat # None /\ lng # None

\* processed_locations after the test and the append
WithLocation(lat, lng, location_name) ==
  IF Resolved(lat, lng)
  THEN Append(processed_locations, [name |-> location_name, lat |-> lat, lng |-> lng])
  ELSE processed_locations

\* the triple the last call of geocode_location returned
LastGeocoded(log) == log[Len(log)]

\* one iteration of "for loc in book['locations']"
ProcessLocation ==
  /\ process_pc = "books"
  /\ book_pos <= Len(books_data)
  /\ ~SkipsBook(books_data[book_pos])
  /\ loc_pos <= Len(books_data[book_pos].locations)
  /\ LET loc == books_data[book_pos].locations[loc_pos] IN
       IF "name" \notin DOMAIN loc
       THEN UNCHANGED <<geocodeVars, processed_locations>>
       ELSE IF HasCoordinates(loc)
       THEN /\ processed_locations' = WithLocation(loc.lat, loc.lng, loc.name)
            /\ UNCHANGED geocodeVars
       ELSE \E outcome \in GeocoderOutcomes :
              /\ geocode_location(loc.name, outcome)
              /\ processed_locations' = WithLocation(LastGeocoded(geocode_calls').lat,
                                                     LastGeocoded(geocode_calls').lng,
                                                     LastGeocoded(geocode_calls').name)
  /\ loc_pos' = loc_pos + 1
  /\ UNCHANGED <<books_data, process_pc, book_pos, processed_books>>
  /\ UNCHANGED <<extractVars, mainVars>>

\* the optional fields that are copied as they are (the cover is left out)
CopiedFields == <<"author", "review", "year", "genre">>

\* processed_book: title, locations and the optional fields of the book
ProcessedBook(book, found) ==
  [field \in {"title", "locations"} \cup (Range(CopiedFields) \cap DOMAIN book) |->
     IF field = "locations" THEN found ELSE book[field]]

\* the loop over the locations of a book is over: "if processed_locations:"
ProcessBookDone ==
  /\ process_pc = "books"
  /\ book_pos <= Len(books_data)
  /\ ~SkipsBook(books_data[book_pos])
  /\ loc_pos > Len(books_data[book_pos].locations)
  /\ processed_books' = IF processed_locations # <<>>
                        THEN Append(processed_books,
                                    ProcessedBook(books_data[book_pos], processed_locations))
                        ELSE processed_books
  /\ book_pos' = book_pos + 1
  /\ loc_pos' = 1
  /\ processed_locations' = <<>>
  /\ UNCHANGED <<books_data, process_pc>>
  /\ UNCHANGED <<extractVars, mainVars, geocodeVars>>

\* a book without title or without locations is passed over
ProcessSkip ==
  /\ process_pc = "books"
  /\ book_pos <= Len(books_data)
  /\ SkipsBook(books_data[book_pos])
  /\ book_pos' = book_pos + 1
  /\ UNCHANGED <<books_data, process_pc, loc_pos, processed_locations, processed_books>>
  /\ UNCHANGED <<extractVars, mainVars, geocodeVars>>

\* "return processed_books"
ProcessReturn ==
  /\ process_pc = "books"
  /\ book_pos > Len(books_data)
  /\ process_pc' = "returned"
  /\ UNCHANGED <<books_data, book_pos, loc_pos, processed_locations, processed_books>>
  /\ UNCHANGED <<extractVars, mainVars, geocodeVars>>

InitProcess ==
  /\ ExtractIdle
  /\ MainIdle
  /\ cache \in CachesAtStart
  /\ geocoder_queries = <<>>
  /\ slept = 0
  /\ geocode_calls = <<>>
  /\ books_data \in ProcessBookLists
  /\ process_pc = "books"
  /\ book_pos = 1
  /\ loc_pos = 1
  /\ processed_locations = <<>>
  /\ processed_books = <<>>

NextProcess == ProcessSkip \/ ProcessLocation \/ ProcessBookDone \/ ProcessReturn

\* one call of process_books on a cache
SpecProcess == InitProcess /\ [][NextProcess]_vars

\* ------------------------------------------------------------------------
\* Properties
\* ------------------------------------------------------------------------
Returned == pc = "done"

Entries == 1..Len(result)

\* C1: the returned list has at most 5 entries.
C1_AtMostFive == Returned => Len(result) <= 5

\* more than 5 locations were kept and the call returned 5 of them
C1_Witness == Returned /\ Len(unique_locations) > 5 /\ Len(result) = 5

\* C2: no two entries of the returned list are equal under case-insensitive
\* comparison.
C2_Unique ==
  Returned => \A i, j \in Entries : i # j => Lower(result[i]) # Lower(result[j])

\* C3: every entry of the returned list has more than 3 and fewer than 100
\* characters.
C3_LengthBounds ==
  Returned => \A i \in Entries : 3 < Len(result[i]) /\ Len(result[i]) < 100

\* C4: no entry of the returned list equals, case-insensitively, one of the
\* five noise phrases.
C4_NoNoise ==
  Returned => \A i \in Entries :
    Lower(result[i]) \notin
      {<<"t","h","e"," ","u","n","i","t","e","d"," ","s","t","a","t","e","s">>,
       <<"t","h","e"," ","u","n","i","t","e","d"," ","k","i","n","g","d","o","m">>,
       <<"t","h","e"," ","n","o","v","e","l">>,
       <<"t","h","e"," ","b","o","o","k">>,
       <<"t","h","e"," ","s","t","o","r","y">>}

\* four digits, optionally followed by a lowercase "s"
YearToken(x) ==
  /\ Len(x) \in {4, 5}
  /\ \A i \in 1..4 : x[i] \in Digits
  /\ Len(x) = 5 => x[5] = "s"

\* C5: no entry of the returned list is a bare year token.
C5_NoBareYear == Returned => \A i \in Entries : ~YearToken(result[i])

\* a bare year was among the candidates of a call that returned
C5_Witness ==
  Returned /\ \E i \in 1..Len(locations) : YearToken(locations[i])

\* C6: two calls on the same text return identical lists, whatever calls
\* were made in between.
C6_Deterministic ==
  \A i, j \in 1..Len(calls) :
    calls[i].text = calls[j].text => calls[i].result = calls[j].result

\* the same text was called twice with a call on another text in between,
\* and its result is not empty
C6_Witness ==
  /\ Len(calls) = 3
  /\ calls[1].text = calls[3].text
  /\ calls[2].text # calls[1].text
  /\ calls[1].result # <<>>
  /\ calls[2].result # <<>>

Nebraska == <<"N","e","b","r","a","s","k","a">>

NewYorkCity == <<"N","e","w"," ","Y","o","r","k"," ","C","i","t","y">>

\* C7: for the text of scenario C the returned list has the entries
\* "Nebraska" and "New York City".
C7_ScenarioC ==
  (Returned /\ text = ScenarioC) =>
    /\ \E i \in Entries : result[i] = Nebraska
    /\ \E i \in Entries : result[i] = NewYorkCity

\* "set in A and B.": A and B free of ".", "," and of the conjunction
ConjunctionForm ==
  LitI(<<"s","e","t"," ","i","n"," ">>)
  \o <<Grp(1, <<PlusLazy(<<NotIn({".", ",", "&"})>>)>>)>>
  \o Lit(<<" ","a","n","d"," ">>)
  \o <<Grp(2, <<PlusLazy(<<NotIn({".", ",", "&"})>>)>>)>>
  \o Lit(<<".">>)

\* a place of the conjunction: 4 to 99 characters, not starting with "the "
PlainPlace(x) ==
  /\ 3 < Len(x) /\ Len(x) < 100
  /\ ~StartsWith(Lower(x), <<"t","h","e"," ">>)

\* C8: when the text has "set in A and B." with A and B plain places, both
\* A and B are entries of the returned list.
C8_ConjunctionSplit ==
  Returned =>
    \A m \in {FindIter(text, ConjunctionForm)[k] :
                k \in 1..Len(FindIter(text, ConjunctionForm))} :
      (PlainPlace(Group(text, m, 1)) /\ PlainPlace(Group(text, m, 2)))
        => /\ \E i \in Entries : result[i] = Group(text, m, 1)
           /\ \E i \in Entries : result[i] = Group(text, m, 2)

SettingEntries == {i \in 1..Len(origin) : origin[i].kind = "setting"}

\* C9 as claimed: the setting-phrase candidates are in the order of
\* appearance of their matches in the text, across all triggers.
C9_TextOrder ==
  \A i, j \in SettingEntries : i < j => origin[i].start <= origin[j].start

\* C9 as amended: the setting-phrase candidates are ordered by trigger, in
\* the order of setting_patterns, and within one trigger in the order of
\* appearance of the matches; the kept locations are in candidate order.
C9_PatternThenTextOrder ==
  /\ \A i, j \in SettingEntries : i < j =>
       \/ origin[i].pattern < origin[j].pattern
       \/ origin[i].pattern = origin[j].pattern /\ origin[i].start <= origin[j].start
  /\ \A a, b \in 1..Len(kept_index) : a < b => kept_index[a] < kept_index[b]

\* a call returned two locations of one trigger from different matches, and
\* a location of a later trigger whose match starts before an earlier trigger's
C9_Witness ==
  /\ Returned
  /\ \E i, j \in SettingEntries :
       i < j /\ origin[i].pattern = origin[j].pattern /\ origin[i].start < origin[j].start
  /\ \E i, j \in SettingEntries :
       i < j /\ origin[i].pattern < origin[j].pattern /\ origin[i].start > origin[j].start
  /\ Len(kept_index) >= 2

\* candidate i is neither a bare year nor a noise phrase, and no earlier
\* candidate equals it case-insensitively
FirstOccurrence(i) ==
  /\ ~YearToken(Strip(locations[i]))
  /\ Lower(locations[i]) \notin skip_phrases
  /\ \A j \in 1..(i - 1) : Lower(locations[j]) # Lower(locations[i])

\* the first occurrences among the first n candidates, in candidate order
RECURSIVE FirstOccurrences(_)
FirstOccurrences(n) ==
  IF n = 0 THEN <<>>
  ELSE FirstOccurrences(n - 1)
       \o (IF FirstOccurrence(n) THEN <<Strip(locations[n])>> ELSE <<>>)

FirstFive(list) == SubSeq(list, 1, IF Len(list) < 5 THEN Len(list) ELSE 5)

\* C10: the returned list is the sequence of first occurrences of the
\* candidates, truncated to 5, and no entry that comes from a place pattern
\* precedes an entry that comes from a setting phrase.
C10_FirstOccurrences ==
  Returned /\ Len(text) > 0 =>
    /\ result = FirstFive(FirstOccurrences(Len(locations)))
    /\ \A a, b \in 1..Len(kept_index) : a < b =>
         ~(origin[kept_index[a]].kind = "place" /\ origin[kept_index[b]].kind = "setting")

SouthernCalifornia == <<"S","o","u","t","h","e","r","n"," ","C","a","l","i","f","o","r","n","i","a">>

\* C11: for the text of scenario B the returned list has the entry
\* "Southern California" and no entry "1960s Southern California".
C11_ScenarioB ==
  (Returned /\ text = ScenarioB) =>
    /\ \E i \in Entries : result[i] = SouthernCalifornia
    /\ \A i \in Entries : result[i] # <<"1","9","6","0","s"," ","S","o","u","t","h","e","r","n"," ","C","a","l","i","f","o","r","n","i","a">>

\* the call on scenario B returned, and the trigger "takes place in" gave
\* the one candidate
C11_Witness ==
  /\ Returned /\ text = ScenarioB
  /\ Len(origin) = 1 /\ origin[1].kind = "setting" /\ origin[1].pattern = 2
  /\ result = <<SouthernCalifornia>>

Constantinople == <<"C","o","n","s","t","a","n","t","i","n","o","p","l","e">>

\* the qualifier "nineteenth-century", in lowercase
CenturyQualifier == <<"n","i","n","e","t","e","e","n","t","h","-","c","e","n","t","u","r","y">>

\* C12: for the text of scenario D the returned list has the entry
\* "Constantinople" and no entry that contains "nineteenth-century".
C12_ScenarioD ==
  (Returned /\ text = ScenarioD) =>
    /\ \E i \in Entries : result[i] = Constantinople
    /\ \A i \in Entries : ~Search(Lower(result[i]), Lit(CenturyQualifier), 1).ok

\* the call on scenario D returned; the trigger "centers around" and the
\* century place pattern both gave a candidate
C12_Witness ==
  /\ Returned /\ text = ScenarioD
  /\ \E i \in 1..Len(origin) : origin[i].kind = "setting" /\ origin[i].pattern = 6
  /\ \E i \in 1..Len(origin) : origin[i].kind = "place" /\ origin[i].pattern = 1
  /\ result = <<Constantinople>>

\* C13: for the text of scenario A the returned list has the entry
\* "Paris, France".
C13_ScenarioA ==
  (Returned /\ text = ScenarioA) => \E i \in Entries : result[i] = ParisFrance

\* the call on scenario A returned; the capture of the trigger stopped at
\* the comma and the city-region pattern gave the pair
C13_Witness ==
  /\ Returned /\ text = ScenarioA
  /\ \E i \in 1..Len(origin) :
       origin[i].kind = "setting" /\ locations[i] = Paris
  /\ \E i \in 1..Len(origin) :
       origin[i].kind = "place" /\ origin[i].pattern = 3 /\ locations[i] = ParisFrance
  /\ result = <<Paris, ParisFrance>>

\* re.finditer finds no match of any setting pattern nor of any place pattern
NoPatternMatches(t) ==
  /\ \A k \in 1..Len(setting_patterns) : ~Search(t, setting_patterns[k], 1).ok
  /\ \A k \in 1..Len(place_patterns) : ~Search(t, place_patterns[k], 1).ok

\* C14: when no setting pattern and no place pattern matches in the text,
\* the returned list is empty.
C14_NoMatchEmpty ==
  (Returned /\ text # NoText /\ NoPatternMatches(text)) => result = <<>>

\* the call on scenario E went through both loops and returned, after a
\* call that returned locations
C14_Witness ==
  /\ Returned /\ text = ScenarioE /\ NoPatternMatches(ScenarioE)
  /\ pattern_index = 0
  /\ Len(calls) >= 2 /\ calls[Len(calls) - 1].result # <<>>
  /\ result = <<>>

\* C15: no call raises; a call that returned returned a list, and the calls
\* on None and on the empty string returned the empty list.
C15_NoError ==
  /\ pc # "raised"
  /\ Returned => result # NotReturned
  /\ (Returned /\ text \in {NoText, <<>>}) => result = <<>>

\* the call on None returned
C15_Witness == Returned /\ text = NoText /\ result = <<>>

\* C16: in a run with --dry-run no step changes a book entry, and no step
\* opens books.yaml for writing or changes what it holds.
C16_DryRunChangesNothing ==
  [][args.dry_run => (books' = books /\ books_file' = books_file)]_vars

\* a run with --dry-run ended after it counted a metadata change and a
\* location change
C16_Witness ==
  /\ args.dry_run /\ main_pc = "end"
  /\ enriched_count > 0 /\ location_enriched_count > 0
  /\ books_file.opened_for_writing = 0

\* an enrichable field of the entry has another value, or is new
MetadataChanged(old, new) ==
  \E field \in Range(ENRICHABLE_FIELDS) : Get(new, field, None) # Get(old, field, None)

\* the key "locations" is new or its list is another one
LocationsChanged(old, new) ==
  \/ ("locations" \in DOMAIN new) # ("locations" \in DOMAIN old)
  \/ BookLocations(new) # BookLocations(old)

\* the prompt of the step was of this kind and for book i, and the answer was "y"
AnsweredYes(r, kind, i) ==
  r.prompt = kind /\ r.book = i /\ Lower(Strip(r.answer)) = <<"y">>

\* C17: in a run without --yes and without --dry-run, a step changes the
\* metadata fields of a book only when the user answered "y" to the metadata
\* prompt for that book in that step, and its locations only when the user
\* answered "y" to the location prompt for that book in that step; no step
\* changes a book in any other way.
C17_OnlyAfterYes ==
  [][(~args.yes /\ ~args.dry_run) =>
       /\ Len(books') = Len(books)
       /\ \A i \in 1..Len(books) :
            /\ MetadataChanged(books[i], books'[i]) =>
                 main_pc = "metadata" /\ AnsweredYes(response', "metadata", i)
            /\ LocationsChanged(books[i], books'[i]) =>
                 main_pc = "locations" /\ AnsweredYes(response', "locations", i)
            /\ books'[i] # books[i] =>
                 MetadataChanged(books[i], books'[i]) \/ LocationsChanged(books[i], books'[i])]_vars

\* in an interactive run the user answered "y" to the location prompt of a
\* book, whose locations were extended, after metadata fields were applied
\* and after another answer than "y" left a book as it was
C17_Witness ==
  /\ ~args.yes /\ ~args.dry_run /\ main_pc = "locations"
  /\ applied # <<>>
  /\ skipped_count > 0
  /\ AnsweredYes(response, "locations", response.book)
  /\ LocationsChanged(books_file.content[response.book], books[response.book])

\* C18: a call of apply_enrichment leaves every field with a non-empty value
\* as it is, leaves every key outside ENRICHABLE_FIELDS as it is (absent or
\* with its value), and returns exactly the fields it wrote, each once.
C18_FillsOnlyMissing ==
  [][main_pc = "apply_enrichment" =>
       /\ \A field \in DOMAIN books[1] :
            ~Falsy(books[1][field]) =>
              field \in DOMAIN books'[1] /\ books'[1][field] = books[1][field]
       /\ \A key \in DictKeys \ Range(ENRICHABLE_FIELDS) :
            /\ (key \in DOMAIN books'[1]) = (key \in DOMAIN books[1])
            /\ Get(books'[1], key, None) = Get(books[1], key, None)
       /\ Range(applied') =
            {key \in DictKeys : Get(books'[1], key, None) # Get(books[1], key, None)}
       /\ Cardinality(Range(applied')) = Len(applied')
       /\ DOMAIN books[1] \subseteq DOMAIN books'[1]]_vars

\* a call returned some fields, on a dict that also had a value for a filled
\* field and for the key "title"
C18_Witness ==
  /\ main_pc = "applied"
  /\ applied # <<>>
  /\ "title" \in DOMAIN enrichment.metadata
  /\ "title" \notin DOMAIN books[1]
  /\ \E field \in Range(ENRICHABLE_FIELDS) :
       field \in DOMAIN enrichment.metadata /\ Get(books[1], field, None) = "old"

\* C19: a run with --locations on an existing books.yaml that ended has
\* reached the location phase and has looked up every book that has no
\* locations or a generic location.
C19_LocationPhaseReached ==
  (main_pc = "end" /\ args.locations /\ books_file.exists) =>
    /\ need_pos > 0
    /\ \A i \in 1..Len(books) :
         (BookLocations(books[i]) = <<>> \/ AnyGeneric(BookLocations(books[i])))
           => \E k \in 1..Len(looked_up) : looked_up[k].book = i

\* the name in lowercase and trimmed
LowercasedTrimmed(name) == Strip(Lower(name))

\* the queries the geocoder answered with a location
SuccessfulQueries == {q \in 1..Len(geocoder_queries) : geocoder_queries[q].kind = "location"}

\* C20: a call of geocode_location whose lowercased, trimmed name is a key of
\* the cache queries the geocoder not at all, does not sleep, leaves the cache
\* as it is and returns the cached entry; a query answered with a location
\* puts that location in the cache under the lowercased, trimmed name; no
\* two successful queries are for the same lowercased, trimmed name; and the
\* time slept is one delay for each query.
C20_CacheUsed ==
  [][/\ LowercasedTrimmed(geocode_calls'[Len(geocode_calls')].location_name) \in DOMAIN cache =>
          /\ geocoder_queries' = geocoder_queries
          /\ slept' = slept
          /\ cache' = cache
          /\ geocode_calls'[Len(geocode_calls')].lat =
               cache[LowercasedTrimmed(geocode_calls'[Len(geocode_calls')].location_name)].lat
          /\ geocode_calls'[Len(geocode_calls')].lng =
               cache[LowercasedTrimmed(geocode_calls'[Len(geocode_calls')].location_name)].lng
     /\ (Len(geocoder_queries') > Len(geocoder_queries)
          /\ geocoder_queries'[Len(geocoder_queries')].kind = "location") =>
          /\ LowercasedTrimmed(geocoder_queries'[Len(geocoder_queries')].location_name)
               \in DOMAIN cache'
          /\ cache'[LowercasedTrimmed(geocoder_queries'[Len(geocoder_queries')].location_name)].lat
               = geocode_calls'[Len(geocode_calls')].lat
          /\ cache'[LowercasedTrimmed(geocoder_queries'[Len(geocoder_queries')].location_name)].lng
               = geocode_calls'[Len(geocode_calls')].lng
     /\ \A p, q \in {k \in 1..Len(geocoder_queries') : geocoder_queries'[k].kind = "location"} :
          p # q => LowercasedTrimmed(geocoder_queries'[p].location_name)
                   # LowercasedTrimmed(geocoder_queries'[q].location_name)
     /\ slept' = GEOCODE_DELAY * Len(geocoder_queries')]_vars

\* after a failed and then a successful query for one place, a call with
\* another spelling of its name was answered from the cache
C20_Witness ==
  /\ Len(geocode_calls) = 3
  /\ Len(geocoder_queries) = 2
  /\ geocoder_queries[1].kind # "location"
  /\ SuccessfulQueries = {2}
  /\ geocode_calls[3].location_name # geocode_calls[2].location_name
  /\ LowercasedTrimmed(geocode_calls[3].location_name)
       = LowercasedTrimmed(geocode_calls[2].location_name)
  /\ geocode_calls[3].lat = geocode_calls[2].lat
  /\ geocode_calls[3].lat # None
  /\ slept = 2 * GEOCODE_DELAY

\* the cleaned phrase of the match that setting candidate i came from
PhraseOf(i) ==
  CleanLocationText(Group(text, MatchAt(text, setting_patterns[origin[i].pattern],
                                        origin[i].start), 1))

\* the pieces of a split, each stripped of whitespace and of commas
StrippedPieces(pieces) ==
  {StripChars(Strip(pieces[k]), {","}) : k \in 1..Len(pieces)}

\* loc is one of the two places of the journey match jm in phrase
IsJourneyPlace(loc, phrase, jm) ==
  loc \in {Strip(Group(phrase, jm, 1)), Strip(Group(phrase, jm, 2))}

\* when the phrase has the journey form, loc is one of its two places, and
\* is neither the phrase nor a piece of its split on " and " / " & "
JourneyPlaceOnly(loc, phrase) ==
  Search(Strip(phrase), JourneyPattern, 1).ok =>
    /\ IsJourneyPlace(loc, Strip(phrase), Search(Strip(phrase), JourneyPattern, 1))
    /\ loc # phrase
    /\ loc \notin StrippedPieces(Split(phrase, ConjunctionPattern))

\* the candidates that come from the same match as candidate i
SameMatch(i) ==
  {j \in SettingEntries : origin[j].pattern = origin[i].pattern
                            /\ origin[j].start = origin[i].start}

\* C21: when the cleaned phrase of a setting match has the journey form, the
\* candidates of that match are at most its two places; the phrase itself and
\* the pieces of its split on " and " / " & " are not among them.
C21_JourneyShortCircuit ==
  Returned =>
    \A i \in SettingEntries :
      /\ JourneyPlaceOnly(locations[i], PhraseOf(i))
      /\ Search(Strip(PhraseOf(i)), JourneyPattern, 1).ok => Cardinality(SameMatch(i)) <= 2

\* a call returned whose phrase "Bonn & Rome to Oslo" has the journey form
\* and also splits on " & ": the candidates are "Rome" and "Oslo"
C21_Witness ==
  /\ Returned
  /\ text = <<"S","e","t"," ","i","n"," ","B","o","n","n"," ","&"," ","R","o","m","e"," ","t","o"," ","O","s","l","o",".">>
  /\ Len(origin) = 2
  /\ Search(PhraseOf(1), JourneyPattern, 1).ok
  /\ Len(Split(PhraseOf(1), ConjunctionPattern)) = 2
  /\ result = <<Rome, Oslo>>

\* s contains the string part
Contains(s, part) == Search(s, Lit(part), 1).ok

\* the words " in the", in lowercase
InThe == <<" ","i","n"," ","t","h","e">>

\* the captured group of the match that setting candidate i came from
CapturedOf(i) ==
  Group(text, MatchAt(text, setting_patterns[origin[i].pattern], origin[i].start), 1)

\* C22: the phrase captured after any setting trigger ends before the first
\* " in the", so that it contains none, and no returned entry that comes
\* from a trigger contains " in the ".
C22_CaptureEnds ==
  Returned =>
    /\ \A i \in SettingEntries : ~Contains(Lower(CapturedOf(i)), InThe)
    /\ \A a \in Entries :
         origin[kept_index[a]].kind = "setting" =>
           ~Contains(Lower(result[a]), InThe \o <<" ">>)

\* candidate i comes from the journey split
FromJourney(i) ==
  origin[i].kind = "setting" /\ Search(Strip(PhraseOf(i)), JourneyPattern, 1).ok

\* C23: no entry of the returned list that was produced by the journey split
\* or by a place pattern begins with "the ", in any case.
C23_NoLeadingThe ==
  Returned =>
    \A a \in Entries :
      (origin[kept_index[a]].kind = "place" \/ FromJourney(kept_index[a]))
        => ~StartsWith(Lower(result[a]), <<"t","h","e"," ">>)

\* x begins with a year, an early/mid/late year or an ordinal century,
\* followed by whitespace
LeadingQualifier(x) ==
  \/ Match(x, YearPrefixPattern, 1, NoCaps).ok
  \/ Match(x, EraPrefixPattern, 1, NoCaps).ok
  \/ Match(x, CenturyPrefixPattern, 1, NoCaps).ok

\* C24: no entry of the returned list begins with a temporal or century
\* qualifier followed by whitespace.
C24_NoLeadingQualifier ==
  Returned => \A i \in Entries : ~LeadingQualifier(result[i])

\* C25: no entry of the returned list is, compared without regard to case, a
\* bare year token.
C25_NoBareYearAnyCase ==
  Returned => \A i \in Entries : ~YearToken(Lower(result[i]))

\* fetch_wikipedia_data returned prose: neither None nor the empty string
HasProse(t) == t # NoText /\ t # <<>>

\* the step is an iteration of the location loop
Looks == Len(looked_up') = Len(looked_up) + 1

\* C26: in an iteration of the location loop, when fetch_wikipedia_data
\* returned no prose, extract_locations_from_text is not called and
\* get_wikipedia_locations returns None; when it returned prose from which
\* the extractor gets the empty list, get_wikipedia_locations returns None as
\* well; in both cases main goes on to the next book and leaves every book as
\* it was.
C26_NoProseNoLocations ==
  [][Looks =>
       /\ ~HasProse(wiki_text') =>
            /\ ~looked_up'[Len(looked_up')].extracted
            /\ wiki_locations' = NoLocations
       /\ (HasProse(wiki_text') /\ ExtractedLocations(wiki_text') = <<>>) =>
            /\ looked_up'[Len(looked_up')].extracted
            /\ wiki_locations' = NoLocations
       /\ (~HasProse(wiki_text') \/ ExtractedLocations(wiki_text') = <<>>) =>
            /\ books' = books
            /\ main_pc' = "locations"
            /\ need_pos' = need_pos + 1
            /\ location_enriched_count' = location_enriched_count]_vars

\* a run looked up one book without prose and one with prose but without
\* locations, and changed no book
C26_Witness ==
  /\ main_pc = "end"
  /\ Len(looked_up) = 2
  /\ ~looked_up[1].extracted
  /\ looked_up[2].extracted
  /\ wiki_text = ScenarioE
  /\ wiki_locations = NoLocations
  /\ books = books_file.content
  /\ location_enriched_count = 0

\* the locations of book i when books.yaml was loaded
LoadedLocations(i) == BookLocations(books_file.content[i])

\* the positions in the locations of book i of the entries the run added
AddedEntries(i) == (Len(LoadedLocations(i)) + 1)..Len(BookLocations(books[i]))

\* C27: until books.yaml is written, the locations of every book begin with
\* the locations it was loaded with, unchanged and in their order, and no
\* entry added by the run has the name, compared without regard to case, of
\* an entry before it in the list.
C27_AddsOnlyNewNames ==
  (main_pc \in {"locations", "write"}) =>
    \A i \in 1..Len(books) :
      /\ Len(BookLocations(books[i])) >= Len(LoadedLocations(i))
      /\ SubSeq(BookLocations(books[i]), 1, Len(LoadedLocations(i))) = LoadedLocations(i)
      /\ \A k \in AddedEntries(i) : \A j \in 1..(k - 1) :
           Lower(BookLocations(books[i])[j].name) # Lower(BookLocations(books[i])[k].name)

\* the step is an iteration of the metadata loop that called apply_enrichment
\* for book i
AppliesTo(i) ==
  /\ main_pc = "metadata"
  /\ Len(fetched') = Len(fetched) + 1
  /\ fetched'[Len(fetched')] = i
  /\ ~args.dry_run
  /\ skipped_count' = skipped_count
  /\ args.yes \/ AnsweredYes(response', "metadata", i)

\* the fields of the book that the step wrote
WrittenFields(old, new) ==
  {field \in DOMAIN new : field \notin DOMAIN old \/ new[field] # old[field]}

\* C28: in an iteration of the metadata loop that calls apply_enrichment, the
\* fields in the list it returns, and the fields of the book it wrote, are
\* the fields display_changes printed as NEW in that iteration.
C28_AppliedIsDisplayed ==
  [][\A i \in 1..Len(books) :
       AppliesTo(i) =>
         /\ Range(applied') = Range(displayed')
         /\ WrittenFields(books[i], books'[i]) = Range(displayed')
         /\ displayed' # <<>>]_vars

\* an enrichment with a field the book already has was applied: the field
\* was neither displayed nor written
C28_Witness ==
  /\ main_pc = "metadata"
  /\ ~args.dry_run
  /\ enriched_count = 1
  /\ "author" \in DOMAIN enrichment.metadata
  /\ Range(applied) = {"isbn", "year"}
  /\ Range(displayed) = {"isbn", "year"}
  /\ books # books_file.content

\* the last prompt was a metadata prompt and the answer was "q"
QuitAnswered == response.prompt = "metadata" /\ Quits(response.answer)

\* the metadata loop was left by "q"
QuitSeen == Len(fetched) < Len(sparse_books) \/ QuitAnswered

\* main has ended after a "q": the changes applied before are in books.yaml
\* and the location phase was run
EndedAfterQuit ==
  (main_pc = "end" /\ QuitSeen) =>
    /\ enriched_count > 0 =>
         /\ books_file.opened_for_writing = 1
         /\ books_file.content = books
    /\ args.locations =>
         /\ need_pos > 0
         /\ books_needing_locations # <<>> => looked_up # <<>>

\* after a "q" the metadata loop is over: what follows it in main is next
LoopLeftAfterQuit ==
  (main_pc = "metadata" /\ QuitAnswered) => sparse_pos > Len(sparse_books)

\* C29: once "q" was answered to a metadata prompt, no step calls
\* get_enrichment_for_book or changes a metadata field of a book; no step
\* changes a metadata field that is filled; and when main ends after the "q",
\* books.yaml holds the books with the changes applied before it if there
\* were any, and with --locations the location loop was entered and looked
\* up a book if one needed locations.  The step after the "q" is the one
\* that follows the loop in main.
C29_QuitKeepsChanges ==
  [][/\ QuitAnswered =>
          /\ fetched' = fetched
          /\ \A i \in 1..Len(books) : ~MetadataChanged(books[i], books'[i])
     /\ \A i \in 1..Len(books) : \A field \in Range(ENRICHABLE_FIELDS) :
          ~Falsy(Get(books[i], field, None))
            => Get(books'[i], field, None) = Get(books[i], field, None)
     /\ LoopLeftAfterQuit'
     /\ EndedAfterQuit']_vars

\* a run applied an enrichment to the first book, got "q" for the second,
\* looked up locations and wrote books.yaml
C29_Witness ==
  /\ main_pc = "end"
  /\ QuitAnswered
  /\ response.book = 2
  /\ fetched = <<1, 2>>
  /\ enriched_count = 1
  /\ ~Falsy(Get(books[1], "year", None))
  /\ Falsy(Get(books[2], "year", None))
  /\ args.locations
  /\ looked_up # <<>>
  /\ books_file.opened_for_writing = 1
  /\ books_file.content = books

\* the step is an iteration of the loop over the locations of a book
LocationProcessed == loc_pos' = loc_pos + 1

\* the location the iteration is about
CurrentLocation == books_data[book_pos].locations[loc_pos]

\* the step ends the loop over the locations of a book
BookProcessed == process_pc = "books" /\ book_pos' = book_pos + 1 /\ loc_pos' = 1

\* every book of the list has a location, and every location of the list and
\* of the book in progress has a latitude and a longitude that are not None
AllResolved ==
  /\ \A b \in 1..Len(processed_books) :
       /\ Len(processed_books[b].locations) >= 1
       /\ \A l \in 1..Len(processed_books[b].locations) :
            /\ processed_books[b].locations[l].lat # None
            /\ processed_books[b].locations[l].lng # None
  /\ \A l \in 1..Len(processed_locations) :
       processed_locations[l].lat # None /\ processed_locations[l].lng # None

\* C30: at every point of process_books, and so when it returns, every book
\* of processed_books has at least one location and every location has a
\* latitude and a longitude other than None; the iteration for a location
\* that has both keys lat and lng calls neither geocode_location nor the
\* geocoder; and a book for which no location was resolved is not appended.
C30_ProcessedBooksResolved ==
  [][/\ AllResolved'
     /\ (LocationProcessed /\ HasCoordinates(CurrentLocation)) =>
          /\ geocode_calls' = geocode_calls
          /\ geocoder_queries' = geocoder_queries
          /\ cache' = cache
     /\ (BookProcessed /\ processed_locations = <<>>) =>
          processed_books' = processed_books]_vars

\* process_books returned: Dune, with two locations the geocoder did not
\* find, is omitted; Emma has the location with coordinates and the geocoded
\* one; a location with null coordinates was passed over
C30_Witness ==
  /\ process_pc = "returned"
  /\ Len(books_data) = 2
  /\ Get(books_data[1], "title", None) = "Dune"
  /\ Get(books_data[2], "title", None) = "Emma"
  /\ Len(geocode_calls) = 3
  /\ geocode_calls[1].lat = None
  /\ geocode_calls[2].lat = None
  /\ Len(processed_books) = 1
  /\ processed_books[1].title = "Emma"
  /\ Len(processed_books[1].locations) = 2

====
